---- MODULE Spec2Model ----
(***************************************************************************)
(* Real-time transport layer of chat_genius.                               *)
(*                                                                         *)
(* Server side (src/server/websocket.ts): the connection registry          *)
(* `clients`, the heartbeat interval, the per-connection frame dispatcher  *)
(* and the two broadcasters.  Every `await` of an async handler is a       *)
(* suspension point: the handler is split there into a step that runs up   *)
(* to the await and a step that resumes after it, and other events may be  *)
(* handled in between.  A store operation takes effect in the step that    *)
(* resumes its awaiter.                                                    *)
(*                                                                         *)
(* Client side (src/client/src/hooks/use-websocket.ts, lines 258-514, the  *)
(* current version of the hook): the transport objects, the refs of the    *)
(* hook, the reconnect timer and the retry timers of sendMessage, and the   *)
(* handler registry with the dispatch of inbound envelopes.                *)
(*                                                                         *)
(* Specifications: Spec (server frames, closes and the store gaining       *)
(* members), SpecHeartbeat (auth, closes whose status update resolves or   *)
(* rejects, registrations and the heartbeat interval), SpecKeys (closes    *)
(* and auth frames whose userId is any value a client can write: the       *)
(* number or the string of a user id, null, 0 or none; the other server    *)
(* specifications take the userId the hook sends, a number, or none),      *)
(* SpecStore (typing broadcasts while users register,                      *)
(* channel_members gains rows and the clearTables script empties the       *)
(* tables), SpecFrames (the frame dispatcher with every kind of frame),    *)
(* SpecAuth (auth frames with or without a userId, closes and              *)
(* registrations), SpecFaulty (auth and closes with a store that may       *)
(* reject the queries of the auth case and of the close handler),          *)
(* SpecClient (connection handling of the hook), SpecHandlers (handler     *)
(* registry of the hook), SpecDispatch (one dispatch pass of the hook,     *)
(* element by element), SpecAuthor (message and typing frames that carry   *)
(* a userId of their own).                                                 *)
(* In every specification that has the message case or broadcastToChannel  *)
(* the store may reject the user query and the membership query of the     *)
(* broadcast.                                                              *)
(***************************************************************************)
EXTENDS Integers, Sequences, FiniteSets, TLC

\* ------------------------------------------------------------------ bounds
MaxConn == 2
MaxUser == 2
MaxChannel == 1
MaxRows == 2
MaxTasks == 1
MaxEntries == 3
MaxWs == 2
MaxGen == 2
MaxSend == 1
MaxScope == 2
MaxHandlers == 3

\* use-websocket.ts: const maxReconnectAttempts = 5
maxReconnectAttempts == 5

Conns == 1..MaxConn
Users == 1..MaxUser
\* the ids a row of users can have
StoreUsers == 1..MaxUser
Channels == 1..MaxChannel
\* The value of data.userId in an auth frame, which case "auth" stores in
\* ws.userId and uses as the key of the registry without a test.  The Map tells
\* keys apart by SameValueZero, so the number 1 and the string "1" are two keys;
\* the store compares both equal to the id 1 of a row.  The number n (n >= 1) is
\* written n, the string of its digits Str(n); the values that if (ws.userId)
\* takes for false are Undefined (the frame has no userId), Null and Zero.
Undefined == 0
Null == 0 - 1
Zero == 0 - 2
Str(n) == MaxUser + n
AuthIds == {Zero, Null, Undefined} \cup Users \cup {Str(n) : n \in Users}

\* The userId of the auth frame the hook of this repository sends: user.id of
\* the session user, a number; a frame written by hand may carry none
SessionIds == {Undefined} \cup Users

\* if (ws.userId), if (excludeUserId)
Truthy(k) == k >= 1

\* eq(users.id, k): the id of the row the store compares equal to k (0: no row
\* can match)
RowOf(k) == IF k \in Users THEN k ELSE IF k > MaxUser THEN k - MaxUser ELSE 0
Sockets == 1..MaxWs
MsgIds == 1..MaxSend
ScopeIds == 1..MaxScope

\* ------------------------------------------------------------ server state
VARIABLES
  readyState,   \* ws.readyState of each server-side connection
  userId,       \* ws.userId (Undefined before the first auth frame)
  channels,     \* ws.channels, the set cached by the auth handler
  isAlive,      \* ws.isAlive
  clients,      \* the registry Map<userId, Client>, entries in insertion order
  dbStatus,     \* users.status of each row of users ("null": no value, "none":
                \* the row was deleted)
  dbMembers,    \* rows <<channelId, userId>> of channel_members, in the order
                \* the store returns them
  clearing,     \* the clearTables script is between its delete of
                \* channel_members and its last delete
  tasks,        \* handlers suspended on an await
  out,          \* the frames sent by the last step, in order
  missed,       \* history: heartbeat ticks since the connection's last pong
  running       \* the Node process of the server has not ended

serverVars == <<readyState, userId, channels, isAlive, clients, dbStatus,
                dbMembers, clearing, tasks, out, missed, running>>

\* ------------------------------------------------------------ client state
VARIABLES
  user,                 \* useUser().user of the current render (0 = none)
  effUser,              \* the user captured by the effect that is set up
  phase,                \* the effect of the hook: "init" (first render, not set
                        \* up yet), "mounted" (set up for the current render),
                        \* "rendered" (set up for the previous render: the
                        \* current one is committed, its effect not yet run),
                        \* "gone" (unmounted)
  gen,                  \* number of effect cleanups so far
  visible,              \* document.visibilityState = "visible"
  ws,                   \* every WebSocket the hook created, in creation order
  wsRef,                \* wsRef.current (0 = null)
  isConnecting,         \* isConnectingRef.current
  reconnectAttempts,    \* reconnectAttemptsRef.current
  timers,               \* the reconnect timer set by the close of each socket
  reconnectTimeoutRef,  \* reconnectTimeoutRef.current (0 = undefined)
  connErrorShown,       \* the "Unable to connect" toast was raised
  wsSent,               \* frames handed to each socket's send, in order
  nSend,                \* number of sendMessage calls so far
  retry,                \* sendMessage calls whose 1000 ms retry timer is pending
  sendError,            \* sendMessage calls that raised the "Unable to send" toast
  delayLog,             \* history: reconnect delays since the counter was last reset
  renders               \* the <<user, gen>> of every render so far: the sendMessage
                        \* and connect functions that components can hold

clientVars == <<user, effUser, phase, gen, visible, ws, wsRef, isConnecting,
                reconnectAttempts, timers, reconnectTimeoutRef, connErrorShown,
                wsSent, nSend, retry, sendError, delayLog, renders>>

\* history: how many times each sendMessage call's frame was handed to a socket
VARIABLE transmitted

\* ------------------------------------------------- client handler registry
VARIABLES
  persistentHandlers,  \* persistentHandlersRef.current
  temporaryHandlers,   \* temporaryHandlersRef.current
  cleanups,            \* ids of the registrations whose cleanup was not called yet
  registered,          \* history: the scope of every addMessageHandler call, by id
  invoked              \* the handler calls made by the last step, in order

handlerVars == <<persistentHandlers, temporaryHandlers, cleanups, registered,
                 invoked>>

\* history of SpecFrames: the frame the last step received on a connection
\* without userId, or matched to no case, and dropped ("" = none)
VARIABLE ignored

\* ------------------------------------------- one dispatch pass of onmessage
VARIABLES
  passList,     \* the array allHandlers that forEach is iterating
  passPos,      \* index of the element forEach visits next (0 = no pass yet)
  passType,     \* message.type of the envelope of the pass
  passStart,    \* history: the handlers registered when the pass started
  passCalls,    \* history: ids of the handlers the pass has called, in order
  passChanged   \* history: a handler was registered or removed during the pass

passVars == <<passList, passPos, passType, passStart, passCalls, passChanged>>

browserVars == <<clientVars, transmitted, handlerVars, passVars>>

\* what the server never touches
outsideServer == <<browserVars, ignored>>

\* what the connection handling of the hook never touches
outsideConnect == <<serverVars, handlerVars, passVars, transmitted, ignored>>

\* what the handler registry of the hook never touches
outsideDispatch == <<serverVars, clientVars, transmitted, ignored>>

\* what the handler registry does not touch when no pass is modelled
outsideHandlers == <<outsideDispatch, passVars>>

vars == <<serverVars, clientVars, transmitted, handlerVars, passVars, ignored>>

\* ---------------------------------------------------------------- envelopes
Envelope(t, u, ch, p, st) ==
  [type |-> t, userId |-> u, channelId |-> ch, parentId |-> p, status |-> st]

Sent(c, k, e) == [to |-> c, for |-> k, env |-> e]

\* ------------------------------------------------------- Map<number, Client>
MapHas(m, k) == \E i \in 1..Len(m) : m[i][1] = k

MapGet(m, k) ==
  IF MapHas(m, k) THEN m[CHOOSE i \in 1..Len(m) : m[i][1] = k][2] ELSE 0

MapSet(m, k, v) ==
  IF MapHas(m, k)
  THEN [i \in 1..Len(m) |-> IF m[i][1] = k THEN <<k, v>> ELSE m[i]]
  ELSE Append(m, <<k, v>>)

MapDelete(m, k) == SelectSeq(m, LAMBDA e : e[1] # k)

\* ------------------------------------------------------------------- store
\* select userId from channel_members where channelId = ch: one id per row, in
\* the order of the rows
SelectMembers(rows, ch) ==
  LET m == SelectSeq(rows, LAMBDA r : r[1] = ch)
  IN [k \in 1..Len(m) |-> m[k][2]]

\* select channelId from channel_members where userId = k, as added to the Set
\* ws.channels
SelectChannels(rows, k) ==
  {rows[j][1] : j \in {i \in 1..Len(rows) : rows[i][2] = RowOf(k)}}

\* update users set status = v where id = k: no row is touched when the store
\* has none that compares equal to k
UpdateStatus(st, k, v) ==
  LET u == RowOf(k)
  IN IF u \notin DOMAIN st \/ st[u] = "none" THEN st ELSE [st EXCEPT ![u] = v]

\* ------------------------------------------------------------- broadcasters
broadcastUserStatus(m, rs, u, st) ==
  LET open == SelectSeq(m, LAMBDA e : rs[e[2]] = "OPEN")
  IN [i \in 1..Len(open) |->
        Sent(open[i][2], open[i][1], Envelope("userStatus", u, 0, 0, st))]

\* the loop of broadcastToChannel over the rows the store returned
RECURSIVE SendLoop(_, _, _, _, _)
SendLoop(ids, m, rs, e, excludeUserId) ==
  IF ids = <<>> THEN <<>>
  ELSE LET u == Head(ids)
           client == MapGet(m, u)
           rest == SendLoop(Tail(ids), m, rs, e, excludeUserId)
       IN IF Truthy(excludeUserId) /\ u = excludeUserId THEN rest
          ELSE IF client # 0 /\ rs[client] = "OPEN"
               THEN <<Sent(client, u, e)>> \o rest
               ELSE rest

broadcastToChannelCached(rows, cache, m, rs, ch, e, excludeUserId) ==
  LET cached == SelectSeq(m, LAMBDA en : ch \in cache[en[2]])
  IN SendLoop([k \in 1..Len(cached) |-> cached[k][1]], m, rs, e, excludeUserId)

broadcastToChannel(rows, cache, m, rs, ch, e, excludeUserId) ==
  SendLoop(SelectMembers(rows, ch), m, rs, e, excludeUserId)

\* ws.send on a socket that is not OPEN delivers nothing
SendTo(rs, c, e) == IF rs[c] = "OPEN" THEN <<Sent(c, 0, e)>> ELSE <<>>

\* ------------------------------------------------------------------- tasks
\* claimed: the userId property of the frame the handler is working on (0: the
\* frame has none)
Task(k, c, u, ch, p, t, x) ==
  [kind |-> k, conn |-> c, userId |-> u, channelId |-> ch, parentId |-> p,
   etype |-> t, exclude |-> x, claimed |-> 0]

Claimed(t, du) == [t EXCEPT !.claimed = du]

RemoveAt(s, i) == SubSeq(s, 1, i - 1) \o SubSeq(s, i + 1, Len(s))

ReplaceAt(s, i, r) == SubSeq(s, 1, i - 1) \o r \o SubSeq(s, i + 1, Len(s))

\* ------------------------------------------------------------------ frames
\* Frames the switch has no work for.  "badjson": text on which JSON.parse
\* throws; "null": the JSON text null, on which reading data.type throws;
\* "notype": any other JSON value that has no type property (a number, a string,
\* an array, an object without type); "unknown": an object whose type matches
\* no case of the switch; "thread_message": the envelope the thread view sends,
\* {type: "thread_message", channelId, parentId, content, ...}.
\* MalformedFrames are the frames that are no envelope, UnhandledFrames those
\* that parse and match no case; a frame without type is both.
MalformedFrames == {"badjson", "null", "notype"}

UnhandledFrames == {"notype", "unknown", "thread_message"}

\* the try block throws before the switch is entered
Throws(f) == f \in {"badjson", "null"}

\* the catch block: the error envelope goes to the socket of the handler
catchError(rs, c) == SendTo(rs, c, Envelope("error", 0, 0, 0, ""))

\* the switch has no default case: what a frame that matches no case sends
switchDefaultError(rs, c) == SendTo(rs, c, Envelope("error", 0, 0, 0, ""))

switchDefault(rs, c) == <<>>

\* if (!ws.userId || !data.channelId) break;
DroppedNoAuthCheck(uid, ch) == ch = 0

Dropped(uid, ch) == ~Truthy(uid) \/ ch = 0

\* if (data.parentId)
IsThread(p) == p # 0

\* userId: ws.userId of messageData and of the typing envelope
AuthorFromFrame(wsUserId, dataUserId) == dataUserId

Author(wsUserId, dataUserId) == wsUserId

\* the lists of rows channel_members can hold when the server starts: any rows,
\* repeated or not, whose user has a row in users
StoredRows(st) ==
  {q \in UNION {[1..n -> Channels \X Users] : n \in 0..MaxRows} :
     \A k \in DOMAIN q : st[q[k][2]] # "none"}

\* --------------------------------------------------------------------- Init
InitServer ==
  /\ readyState = [c \in Conns |-> "NONE"]
  /\ userId = [c \in Conns |-> Undefined]
  /\ channels = [c \in Conns |-> {}]
  /\ isAlive = [c \in Conns |-> FALSE]
  /\ clients = <<>>
  /\ dbStatus \in [StoreUsers -> {"none", "null", "offline", "online"}]
  /\ dbMembers \in StoredRows(dbStatus)
  /\ clearing = FALSE
  /\ tasks = <<>>
  /\ out = <<>>
  /\ missed = [c \in Conns |-> 0]
  /\ running = TRUE

\* ----------------------------------------------------------- server actions
\* wss.on("connection"): connections are numbered in the order they are accepted
Connection(c) ==
  /\ running
  /\ readyState[c] = "NONE"
  /\ \A d \in Conns : d < c => readyState[d] # "NONE"
  /\ readyState' = [readyState EXCEPT ![c] = "OPEN"]
  /\ isAlive' = [isAlive EXCEPT ![c] = TRUE]
  /\ channels' = [channels EXCEPT ![c] = {}]
  /\ out' = <<>>
  /\ UNCHANGED <<userId, clients, dbStatus, dbMembers, clearing, tasks, missed, running>>

\* case "auth", up to the first await
RecvAuth(c, u) ==
  /\ readyState[c] = "OPEN"
  /\ MapHas(clients, u) \/ Len(clients) < MaxEntries
  /\ Len(tasks) < MaxTasks
  /\ userId' = [userId EXCEPT ![c] = u]
  /\ clients' = MapSet(clients, u, c)
  /\ tasks' = Append(tasks, Task("auth_status", c, u, 0, 0, "", 0))
  /\ out' = <<>>
  /\ UNCHANGED <<readyState, channels, isAlive, dbStatus, dbMembers, clearing, missed, running>>

\* case "auth", from the status update to the membership query
AuthStatusDone(i) ==
  /\ i \in 1..Len(tasks)
  /\ tasks[i].kind = "auth_status"
  /\ dbStatus' = UpdateStatus(dbStatus, tasks[i].userId, "online")
  /\ tasks' = [tasks EXCEPT ![i].kind = "auth_channels"]
  /\ out' = <<>>
  /\ UNCHANGED <<readyState, userId, channels, isAlive, clients, dbMembers, clearing, missed, running>>

\* case "auth", after the membership query
AuthChannelsDone(i) ==
  /\ i \in 1..Len(tasks)
  /\ tasks[i].kind = "auth_channels"
  /\ LET c == tasks[i].conn
         u == tasks[i].userId
     IN /\ channels' = [channels EXCEPT ![c] = @ \cup SelectChannels(dbMembers, u)]
        /\ out' = SendTo(readyState, c, Envelope("auth_success", u, 0, 0, ""))
                    \o broadcastUserStatus(clients, readyState, u, "online")
  /\ tasks' = RemoveAt(tasks, i)
  /\ UNCHANGED <<readyState, userId, isAlive, clients, dbStatus, dbMembers, clearing, missed, running>>

\* case "auth": the status update rejects; the catch block answers and the
\* handler ends
AuthStatusFail(i) ==
  /\ i \in 1..Len(tasks)
  /\ tasks[i].kind = "auth_status"
  /\ out' = catchError(readyState, tasks[i].conn)
  /\ tasks' = RemoveAt(tasks, i)
  /\ UNCHANGED <<readyState, userId, channels, isAlive, clients, dbStatus,
                 dbMembers, clearing, missed, running>>

\* case "auth": the membership query rejects; the catch block answers and the
\* handler ends
AuthChannelsFail(i) ==
  /\ i \in 1..Len(tasks)
  /\ tasks[i].kind = "auth_channels"
  /\ out' = catchError(readyState, tasks[i].conn)
  /\ tasks' = RemoveAt(tasks, i)
  /\ UNCHANGED <<readyState, userId, channels, isAlive, clients, dbStatus,
                 dbMembers, clearing, missed, running>>

\* case "message", up to the await of the user query (ch = 0: no channelId;
\* du: the userId property of the frame, 0 if it has none)
RecvMessageData(c, ch, p, du) ==
  /\ readyState[c] = "OPEN"
  /\ IF Dropped(userId[c], ch)
     THEN tasks' = tasks
     ELSE /\ Len(tasks) < MaxTasks
          /\ tasks' = Append(tasks,
                         Claimed(Task("msg_user", c, 0, ch, p, "", 0), du))
  /\ out' = <<>>
  /\ UNCHANGED <<readyState, userId, channels, isAlive, clients, dbStatus,
                 dbMembers, clearing, missed, running>>

\* a message frame without a userId property
RecvMessage(c, ch, p) == RecvMessageData(c, ch, p, 0)

\* case "message", after the user query: both broadcastToChannel calls run up to
\* their own await, then the confirmation is sent
MessageUserDone(i) ==
  /\ i \in 1..Len(tasks)
  /\ tasks[i].kind = "msg_user"
  /\ LET c == tasks[i].conn
         ch == tasks[i].channelId
         p == tasks[i].parentId
         du == tasks[i].claimed
         first == Claimed(Task("bcast", 0, Author(userId[c], du), ch, p,
                               "message", userId[c]), du)
         second == Claimed(Task("bcast", 0, Author(userId[c], du), ch, p,
                                "thread_message", userId[c]), du)
     IN /\ tasks' = ReplaceAt(tasks, i,
                       IF IsThread(p) THEN <<first, second>> ELSE <<first>>)
        /\ out' = SendTo(readyState, c, Envelope("message_sent", 0, ch, 0, ""))
  /\ UNCHANGED <<readyState, userId, channels, isAlive, clients, dbStatus,
                 dbMembers, clearing, missed, running>>

\* case "message": the user query rejects; the catch block answers, no
\* broadcastToChannel is called and no confirmation is sent
MessageUserFail(i) ==
  /\ i \in 1..Len(tasks)
  /\ tasks[i].kind = "msg_user"
  /\ out' = catchError(readyState, tasks[i].conn)
  /\ tasks' = RemoveAt(tasks, i)
  /\ UNCHANGED <<readyState, userId, channels, isAlive, clients, dbStatus,
                 dbMembers, clearing, missed, running>>

\* case "typing": broadcastToChannel runs up to its await
RecvTypingData(c, ch, du) ==
  /\ readyState[c] = "OPEN"
  /\ IF Dropped(userId[c], ch)
     THEN tasks' = tasks
     ELSE /\ Len(tasks) < MaxTasks
          /\ tasks' = Append(tasks,
                         Claimed(Task("bcast", 0, Author(userId[c], du), ch, 0,
                                      "typing", 0), du))
  /\ out' = <<>>
  /\ UNCHANGED <<readyState, userId, channels, isAlive, clients, dbStatus,
                 dbMembers, clearing, missed, running>>

\* a typing frame without a userId property
RecvTyping(c, ch) == RecvTypingData(c, ch, 0)

\* a frame that is no envelope: the catch block answers when the try block
\* throws, and nothing does when the value parses and the switch finds no case
RecvMalformed(c, f) ==
  /\ readyState[c] = "OPEN"
  /\ f \in MalformedFrames
  /\ out' = IF Throws(f) THEN catchError(readyState, c)
             ELSE switchDefault(readyState, c)
  /\ UNCHANGED <<readyState, userId, channels, isAlive, clients, dbStatus,
                 dbMembers, clearing, tasks, missed, running>>

\* a frame that parses and matches no case of the switch
RecvUnhandled(c, f) ==
  /\ readyState[c] = "OPEN"
  /\ ~Throws(f)
  /\ out' = switchDefault(readyState, c)
  /\ UNCHANGED <<readyState, userId, channels, isAlive, clients, dbStatus,
                 dbMembers, clearing, tasks, missed, running>>

\* broadcastToChannel, after the membership query
BroadcastDone(i) ==
  /\ i \in 1..Len(tasks)
  /\ tasks[i].kind = "bcast"
  /\ out' = broadcastToChannel(dbMembers, channels, clients, readyState,
               tasks[i].channelId,
               Envelope(tasks[i].etype, tasks[i].userId, tasks[i].channelId,
                        tasks[i].parentId, ""),
               tasks[i].exclude)
  /\ tasks' = RemoveAt(tasks, i)
  /\ UNCHANGED <<readyState, userId, channels, isAlive, clients, dbStatus,
                 dbMembers, clearing, missed, running>>

\* broadcastToChannel: the membership query rejects.  The call is not awaited
\* and nothing catches the rejection of its promise, so the Node process ends:
\* its sockets are closed without a close handler, the registry and the
\* suspended handlers are gone, the store keeps what it holds
BroadcastFail(i) ==
  /\ i \in 1..Len(tasks)
  /\ tasks[i].kind = "bcast"
  /\ running' = FALSE
  /\ readyState' = [c \in Conns |->
                      IF readyState[c] = "NONE" THEN "NONE" ELSE "CLOSED"]
  /\ clients' = <<>>
  /\ tasks' = <<>>
  /\ out' = <<>>
  /\ UNCHANGED <<userId, channels, isAlive, dbStatus, dbMembers, clearing, missed>>

\* the close frame of the peer arrives: the socket is CLOSING until its
\* transport has closed and the close event is emitted
CloseFrame(c) ==
  /\ readyState[c] = "OPEN"
  /\ readyState' = [readyState EXCEPT ![c] = "CLOSING"]
  /\ out' = <<>>
  /\ UNCHANGED <<userId, channels, isAlive, clients, dbStatus, dbMembers,
                 clearing, tasks, missed, running>>

\* ws.on("close"), up to the await: the transport closed (after a close frame,
\* after terminate(), or lost)
CloseEvent(c) ==
  /\ readyState[c] \in {"OPEN", "CLOSING"}
  /\ readyState' = [readyState EXCEPT ![c] = "CLOSED"]
  /\ IF Truthy(userId[c])
     THEN /\ clients' = MapDelete(clients, userId[c])
          /\ tasks' = Append(tasks, Task("close_status", c, userId[c], 0, 0, "", 0))
     ELSE UNCHANGED <<clients, tasks>>
  /\ out' = <<>>
  /\ UNCHANGED <<userId, channels, isAlive, dbStatus, dbMembers, clearing, missed, running>>

\* ws.on("close"), after the status update
CloseStatusDone(i) ==
  /\ i \in 1..Len(tasks)
  /\ tasks[i].kind = "close_status"
  /\ dbStatus' = UpdateStatus(dbStatus, tasks[i].userId, "offline")
  /\ out' = broadcastUserStatus(clients, readyState, tasks[i].userId, "offline")
  /\ tasks' = RemoveAt(tasks, i)
  /\ UNCHANGED <<readyState, userId, channels, isAlive, clients, dbMembers, clearing, missed, running>>

\* ws.on("close"): the status update rejects.  Nothing catches the rejection
\* of the async listener, so the Node process ends: its sockets are closed
\* without a close handler, the registry and the suspended handlers are gone,
\* the store keeps what it holds
CloseStatusFail(i) ==
  /\ i \in 1..Len(tasks)
  /\ tasks[i].kind = "close_status"
  /\ running' = FALSE
  /\ readyState' = [c \in Conns |->
                      IF readyState[c] = "NONE" THEN "NONE" ELSE "CLOSED"]
  /\ clients' = <<>>
  /\ tasks' = <<>>
  /\ out' = <<>>
  /\ UNCHANGED <<userId, channels, isAlive, dbStatus, dbMembers, clearing, missed>>

\* the decision of the heartbeat interval for one connection
TerminateAlways(alive) == TRUE

Terminate(alive) == alive = FALSE

\* wss.clients holds a socket from its connection to its close event
InClients(rs, c) == rs[c] \in {"OPEN", "CLOSING"}

\* setInterval callback: one pass over wss.clients, whatever it holds;
\* terminate() and ping() leave a socket that is already CLOSING as it is
HeartbeatTick ==
  /\ running
  /\ readyState' = [c \in Conns |->
        IF readyState[c] = "OPEN" /\ Terminate(isAlive[c])
        THEN "CLOSING" ELSE readyState[c]]
  /\ isAlive' = [c \in Conns |->
        IF InClients(readyState, c) /\ ~Terminate(isAlive[c])
        THEN FALSE ELSE isAlive[c]]
  /\ missed' = [c \in Conns |->
        IF InClients(readyState, c) /\ missed[c] < 2
        THEN missed[c] + 1 ELSE missed[c]]
  /\ out' = <<>>
  /\ UNCHANGED <<userId, channels, clients, dbStatus, dbMembers, clearing, tasks, running>>

\* ws.on("pong", heartbeat)
heartbeat(c) ==
  /\ readyState[c] = "OPEN"
  /\ isAlive[c] = FALSE
  /\ isAlive' = [isAlive EXCEPT ![c] = TRUE]
  /\ missed' = [missed EXCEPT ![c] = 0]
  /\ out' = <<>>
  /\ UNCHANGED <<readyState, userId, channels, clients, dbStatus, dbMembers, clearing, tasks, running>>

\* the sequences without repetition over the set S
Arrangements(S) ==
  {q \in UNION {[1..n -> S] : n \in 1..Cardinality(S)} :
      \A a, b \in DOMAIN q : q[a] = q[b] => a = b}

\* the rows one insert statement adds: a row per workspace member for a new
\* channel (routes.ts), or a row per default channel for a new user (auth.ts)
RowBatches ==
  {[k \in DOMAIN q |-> <<ch, q[k]>>] : ch \in Channels, q \in Arrangements(Users)}
    \cup {[k \in DOMAIN q |-> <<q[k], u>>] : u \in Users, q \in Arrangements(Channels)}

\* POST /api/register: db.insert(users) gives the new user a row, without a
\* status; the rows of channel_members for the new user follow in MemberInsert
register(u) ==
  /\ running
  /\ dbStatus[u] = "none"
  /\ dbStatus' = [dbStatus EXCEPT ![u] = "null"]
  /\ out' = <<>>
  /\ UNCHANGED <<readyState, userId, channels, isAlive, clients, dbMembers,
                 clearing, tasks, missed, running>>

\* db.insert(channelMembers).values(rows): the table has no unique constraint on
\* (channelId, userId); userId references users
MemberInsert(rows) ==
  /\ running
  /\ Len(dbMembers) + Len(rows) <= MaxRows
  /\ \A k \in 1..Len(rows) : dbStatus[rows[k][2]] # "none"
  /\ dbMembers' = dbMembers \o rows
  /\ out' = <<>>
  /\ UNCHANGED <<readyState, userId, channels, isAlive, clients, dbStatus,
                 clearing, tasks, missed, running>>

\* clearTables(), up to db.delete(channelMembers): the deletes of reactions and
\* messages touch no table the server reads here
clearTablesMembers ==
  /\ ~clearing
  /\ clearing' = TRUE
  /\ dbMembers' = <<>>
  /\ out' = <<>>
  /\ UNCHANGED <<readyState, userId, channels, isAlive, clients, dbStatus,
                 tasks, missed, running>>

\* clearTables(), from db.delete(channels) to db.delete(users)
clearTablesUsers ==
  /\ clearing
  /\ dbMembers = <<>>
  /\ clearing' = FALSE
  /\ dbStatus' = [u \in StoreUsers |-> "none"]
  /\ out' = <<>>
  /\ UNCHANGED <<readyState, userId, channels, isAlive, clients, dbMembers,
                 tasks, missed, running>>

\* clearTables(): one of the deletes rejects, before or after that of
\* channel_members (a row that references the table was inserted meanwhile, or
\* the store is unavailable); the catch block ends the script
clearTablesAbort ==
  /\ clearing' = FALSE
  /\ out' = <<>>
  /\ UNCHANGED <<readyState, userId, channels, isAlive, clients, dbStatus,
                 dbMembers, tasks, missed, running>>

\* ------------------------------------------------------------ client helpers
\* A socket occupies a slot from its creation until its close event has been
\* handled and the reconnect timer that event set, if any, has fired or been
\* cleared; the slot is then free for the next new WebSocket(...).
NoSocket == [state |-> "NONE", cuser |-> 0, cgen |-> 0]

NoTimer == [state |-> "NONE", delay |-> 0]

\* the value reconnectTimeoutRef.current keeps once its timer fired or was cleared
Stale == 0 - 1

InitClient ==
  /\ user = 0
  /\ effUser = 0
  /\ phase = "init"
  /\ gen = 0
  /\ visible = TRUE
  /\ ws = [w \in Sockets |-> NoSocket]
  /\ wsRef = 0
  /\ isConnecting = FALSE
  /\ reconnectAttempts = 0
  /\ timers = [w \in Sockets |-> NoTimer]
  /\ reconnectTimeoutRef = 0
  /\ connErrorShown = FALSE
  /\ wsSent = [w \in Sockets |-> <<>>]
  /\ nSend = 0
  /\ retry = {}
  /\ sendError = {}
  /\ delayLog = <<>>
  /\ renders = {<<0, 0>>}
  /\ transmitted = [k \in MsgIds |-> 0]

FreeSlots(W) == {w \in Sockets : W[w].state = "NONE"}

IsOpen(W, ref) == ref > 0 /\ W[ref].state = "OPEN"

\* the early return of connect()
ConnectReturns(cu, W, ref, conn) == cu = 0 \/ IsOpen(W, ref) \/ conn

\* connect() of the closure of effect generation cg, which captured user cu, run
\* when the sockets are W, wsRef.current is ref and isConnectingRef.current is conn
connect(cu, cg, W, ref, conn) ==
  IF ConnectReturns(cu, W, ref, conn)
  THEN [ws |-> W, wsRef |-> ref, isConnecting |-> conn]
  ELSE LET w == CHOOSE x \in FreeSlots(W) : \A y \in FreeSlots(W) : x <= y
       IN [ws |-> [W EXCEPT ![w] = [state |-> "CONNECTING", cuser |-> cu,
                                     cgen |-> cg]],
           wsRef |-> w,
           isConnecting |-> TRUE]

\* the model holds at most MaxWs sockets at a time
HasRoom(cu, W, ref, conn) == ConnectReturns(cu, W, ref, conn) \/ FreeSlots(W) # {}

\* clearTimeout(reconnectTimeoutRef.current): the slot of a cleared timer is free
ClearedTimers(T, ref) == IF ref > 0 THEN [T EXCEPT ![ref] = NoTimer] ELSE T

ClearedSockets(W, ref) == IF ref > 0 THEN [W EXCEPT ![ref] = NoSocket] ELSE W

\* Math.min(1000 * Math.pow(2, attempts), 10000)
ReconnectDelayUncapped(attempts) == 1000 * (2 ^ attempts)

\* reconnectAttemptsRef.current = 0 in ws.onopen
AttemptsAfterOpenKept(attempts) == attempts

AttemptsAfterOpen(attempts) == 0

ReconnectDelay(attempts) ==
  IF 1000 * (2 ^ attempts) < 10000 THEN 1000 * (2 ^ attempts) ELSE 10000

\* reconnectAttemptsRef.current < maxReconnectAttempts
AttemptsLeftAlways(attempts) == TRUE

AttemptsLeft(attempts) == attempts < maxReconnectAttempts

\* user && document.visibilityState === "visible" && attempts < max
MayReconnect(cu, vis, attempts) ==
  cu # 0 /\ vis /\ AttemptsLeft(attempts)

\* isConnectingRef.current = false in ws.onclose
ConnectingAfterCloseKept(conn) == conn

ConnectingAfterClose(conn) == FALSE

\* wsRef.current.close() of the effect cleanup
CleanupClose(W) ==
  IF IsOpen(W, wsRef) THEN [W EXCEPT ![wsRef].state = "CLOSING"] ELSE W

\* ----------------------------------------------------------- client actions
\* the user of useUser() in the first render of the hook, before the effect ran
Login(u) ==
  /\ phase = "init"
  /\ u # user
  /\ user' = u
  /\ renders' = {<<u, gen>>}
  /\ UNCHANGED <<effUser, phase, gen, visible, ws, wsRef, isConnecting, reconnectAttempts,
                 timers, reconnectTimeoutRef, connErrorShown, wsSent, nSend,
                 retry, sendError, delayLog>>

\* useEffect setup on mount
Mount ==
  /\ phase = "init"
  /\ phase' = "mounted"
  /\ effUser' = user
  /\ LET r == connect(user, gen, ws, wsRef, isConnecting)
     IN /\ ws' = r.ws
        /\ wsRef' = r.wsRef
        /\ isConnecting' = r.isConnecting
  /\ UNCHANGED <<renders, user, gen, visible, reconnectAttempts, timers,
                 reconnectTimeoutRef, connErrorShown, wsSent, nSend, retry,
                 sendError, delayLog>>

\* the hook renders again with a new user object from useUser(): another user,
\* none, or the same user fetched again.  The render is committed; its effect
\* runs later, and until then the listener, the timer and the socket handlers
\* of the previous effect are the ones in place
Render(u) ==
  /\ phase = "mounted"
  /\ gen < MaxGen
  /\ phase' = "rendered"
  /\ user' = u
  /\ renders' = renders \cup {<<u, gen + 1>>}
  /\ UNCHANGED <<effUser, gen, visible, ws, wsRef, isConnecting, reconnectAttempts,
                 timers, reconnectTimeoutRef, connErrorShown, wsSent, nSend,
                 retry, sendError, delayLog>>

\* the effect runs for the committed render, [user, connect] having changed:
\* cleanup of the previous effect, then setup of the new one
EffectRerun ==
  /\ phase = "rendered"
  /\ phase' = "mounted"
  /\ LET W == CleanupClose(ClearedSockets(ws, reconnectTimeoutRef))
     IN /\ HasRoom(user, W, wsRef, isConnecting)
        /\ LET r == connect(user, gen + 1, W, wsRef, isConnecting)
           IN /\ ws' = r.ws
              /\ wsRef' = r.wsRef
              /\ isConnecting' = r.isConnecting
  /\ effUser' = user
  /\ gen' = gen + 1
  /\ timers' = ClearedTimers(timers, reconnectTimeoutRef)
  /\ reconnectTimeoutRef' = IF reconnectTimeoutRef = 0 THEN 0 ELSE Stale
  /\ UNCHANGED <<renders, user, visible, reconnectAttempts, connErrorShown, wsSent,
                 nSend, retry, sendError, delayLog>>

\* useEffect cleanup on unmount
Unmount ==
  /\ phase = "mounted"
  /\ phase' = "gone"
  /\ gen' = gen + 1
  /\ timers' = ClearedTimers(timers, reconnectTimeoutRef)
  /\ reconnectTimeoutRef' = IF reconnectTimeoutRef = 0 THEN 0 ELSE Stale
  /\ ws' = CleanupClose(ClearedSockets(ws, reconnectTimeoutRef))
  /\ UNCHANGED <<renders, user, effUser, visible, wsRef, isConnecting, reconnectAttempts,
                 connErrorShown, wsSent, nSend, retry, sendError, delayLog>>

\* ws.onopen
onopen(w) ==
  /\ ws[w].state = "CONNECTING"
  /\ ws' = [ClearedSockets(ws, reconnectTimeoutRef) EXCEPT ![w].state = "OPEN"]
  /\ wsSent' = [wsSent EXCEPT ![w] = Append(@, <<"auth", ws[w].cuser>>)]
  /\ reconnectAttempts' = AttemptsAfterOpen(reconnectAttempts)
  /\ isConnecting' = FALSE
  /\ timers' = ClearedTimers(timers, reconnectTimeoutRef)
  /\ reconnectTimeoutRef' = 0
  /\ delayLog' = <<>>
  /\ UNCHANGED <<renders, user, effUser, phase, gen, visible, wsRef, connErrorShown, nSend, retry,
                 sendError>>

\* the body of ws.onclose for socket w, once the sockets are W
CloseHandler(w, W) ==
  /\ wsRef' = 0
  /\ isConnecting' = ConnectingAfterClose(isConnecting)
  /\ wsSent' = [wsSent EXCEPT ![w] = <<>>]
  /\ IF MayReconnect(ws[w].cuser, visible, reconnectAttempts)
     THEN /\ reconnectAttempts' = reconnectAttempts + 1
          /\ ws' = [ClearedSockets(W, reconnectTimeoutRef) EXCEPT
                      ![w].state = "CLOSED"]
          /\ timers' = [ClearedTimers(timers, reconnectTimeoutRef) EXCEPT
                          ![w] = [state |-> "PENDING",
                                  delay |-> ReconnectDelay(reconnectAttempts)]]
          /\ reconnectTimeoutRef' = w
          /\ delayLog' = Append(delayLog, ReconnectDelay(reconnectAttempts))
          /\ UNCHANGED connErrorShown
     ELSE /\ connErrorShown' =
               (connErrorShown \/ reconnectAttempts >= maxReconnectAttempts)
          /\ ws' = [W EXCEPT ![w] = NoSocket]
          /\ UNCHANGED <<reconnectAttempts, timers, reconnectTimeoutRef, delayLog>>
  /\ UNCHANGED <<renders, user, effUser, phase, gen, visible, nSend, retry, sendError>>

\* close event with the given code: the server closed an open socket, or the
\* close() of the cleanup completed (no status code: 1005)
onclose(w, code) ==
  /\ \/ ws[w].state = "OPEN" /\ code \in {1000, 1001}
     \/ ws[w].state = "CLOSING" /\ code = 1005
  /\ CloseHandler(w, ws)

\* the connection failed: the socket is CLOSED, then the error event and the
\* close event (code 1006) are fired in the same task
onerror(w) ==
  /\ ws[w].state \in {"CONNECTING", "OPEN", "CLOSING"}
  /\ CloseHandler(w, IF wsRef # w /\ IsOpen(ws, wsRef)
                     THEN [ws EXCEPT ![wsRef].state = "CLOSING"] ELSE ws)

\* the reconnect timer set by the close of socket w fires: setTimeout(connect, ..)
TimerFire(w) ==
  /\ timers[w].state = "PENDING"
  /\ timers' = [timers EXCEPT ![w] = NoTimer]
  /\ reconnectTimeoutRef' = IF reconnectTimeoutRef = w THEN Stale
                            ELSE reconnectTimeoutRef
  /\ LET r == connect(ws[w].cuser, ws[w].cgen, [ws EXCEPT ![w] = NoSocket],
                      wsRef, isConnecting)
     IN /\ ws' = r.ws
        /\ wsRef' = r.wsRef
        /\ isConnecting' = r.isConnecting
  /\ UNCHANGED <<renders, user, effUser, phase, gen, visible, reconnectAttempts, connErrorShown,
                 wsSent, nSend, retry, sendError, delayLog>>

\* visibilitychange to hidden
Hide ==
  /\ visible
  /\ visible' = FALSE
  /\ UNCHANGED <<renders, user, effUser, phase, gen, ws, wsRef, isConnecting, reconnectAttempts,
                 timers, reconnectTimeoutRef, connErrorShown, wsSent, nSend,
                 retry, sendError, delayLog>>

\* the listener of the effect that is set up
ListenerOn == phase \in {"mounted", "rendered"}

\* visibilitychange to visible: handleVisibilityChange of the effect that is
\* set up, with the user and the connect() that effect captured
handleVisibilityChange ==
  /\ ~visible
  /\ visible' = TRUE
  /\ IF ListenerOn /\ effUser # 0 /\ ~IsOpen(ws, wsRef)
     THEN /\ HasRoom(effUser, ws, wsRef, isConnecting)
          /\ reconnectAttempts' = 0
          /\ delayLog' = <<>>
          /\ LET r == connect(effUser, gen, ws, wsRef, isConnecting)
             IN /\ ws' = r.ws
                /\ wsRef' = r.wsRef
                /\ isConnecting' = r.isConnecting
     ELSE UNCHANGED <<reconnectAttempts, delayLog, ws, wsRef, isConnecting>>
  /\ UNCHANGED <<renders, user, effUser, phase, gen, timers, reconnectTimeoutRef, connErrorShown,
                 wsSent, nSend, retry, sendError>>

\* trySendMessage of sendMessage: hands the frame m to wsRef.current if it is OPEN
trySendMessageTwice(W, ref, S, m) ==
  IF IsOpen(W, ref)
  THEN [ok |-> TRUE, wsSent |-> [S EXCEPT ![ref] = Append(Append(@, m), m)]]
  ELSE [ok |-> FALSE, wsSent |-> S]

trySendMessage(W, ref, S, m) ==
  IF IsOpen(W, ref)
  THEN [ok |-> TRUE, wsSent |-> [S EXCEPT ![ref] = Append(@, m)]]
  ELSE [ok |-> FALSE, wsSent |-> S]

\* the number of frames a step handed to the socket wsRef.current
Handed(S, T, ref) == IF ref > 0 THEN Len(T[ref]) - Len(S[ref]) ELSE 0

\* sendMessage(message), the message numbered by the call. The function is the
\* one of the render f = <<user, gen>>: a component keeps it across an await
\* and calls it before the effect ran, after a later render or after unmount
sendMessage(f) ==
  /\ f \in renders
  /\ nSend < MaxSend
  /\ nSend' = nSend + 1
  /\ LET r == trySendMessage(ws, wsRef, wsSent, <<"msg", nSend + 1>>)
     IN /\ wsSent' = r.wsSent
        /\ transmitted' = [transmitted EXCEPT ![nSend + 1] =
                             @ + Handed(wsSent, r.wsSent, wsRef)]
        /\ IF r.ok
           THEN UNCHANGED <<ws, wsRef, isConnecting, retry>>
           ELSE /\ HasRoom(f[1], ws, wsRef, isConnecting)
                /\ LET n == connect(f[1], f[2], ws, wsRef, isConnecting)
                   IN /\ ws' = n.ws
                      /\ wsRef' = n.wsRef
                      /\ isConnecting' = n.isConnecting
                /\ retry' = retry \cup {nSend + 1}
  /\ UNCHANGED <<renders, user, effUser, phase, gen, visible, reconnectAttempts, timers,
                 reconnectTimeoutRef, connErrorShown, sendError, delayLog>>

\* the retry timer of sendMessage call k fires, 1000 ms after the call
RetryFire(k) ==
  /\ k \in retry
  /\ retry' = retry \ {k}
  /\ LET r == trySendMessage(ws, wsRef, wsSent, <<"msg", k>>)
     IN /\ wsSent' = r.wsSent
        /\ transmitted' = [transmitted EXCEPT ![k] =
                             @ + Handed(wsSent, r.wsSent, wsRef)]
        /\ sendError' = IF r.ok THEN sendError ELSE sendError \cup {k}
  /\ UNCHANGED <<renders, user, effUser, phase, gen, visible, ws, wsRef, isConnecting,
                 reconnectAttempts, timers, reconnectTimeoutRef, connErrorShown,
                 nSend, delayLog>>

\* ------------------------------------------------------ handler registry
\* A scope string "channel-<n>", "thread-<n>" or "global" is the pair of its
\* prefix and its number.
Scope(kind, n) == [kind |-> kind, id |-> n]

Scopes ==
  {Scope(k, n) : k \in {"channel", "thread"}, n \in ScopeIds} \cup {Scope("global", 0)}

\* scope.startsWith("channel-"), scope.startsWith("thread-")
StartsWith(scope, prefix) == scope.kind = prefix

\* newHandler = {id: handlerId, scope, handler, isPersistent}; the callback is
\* named by the number of the addMessageHandler call that passed it
Handler(id, scope, handler) ==
  [id |-> id, scope |-> scope, handler |-> handler,
   isPersistent |-> StartsWith(scope, "channel")]

\* [...ref.current.filter(h => h.scope !== scope), newHandler]
AddHandlerPush(hs, h) == Append(hs, h)

AddHandler(hs, h) == Append(SelectSeq(hs, LAMBDA x : x.scope # h.scope), h)

\* ref.current.filter(h => h.id !== handlerId)
RemoveHandler(hs, id) == SelectSeq(hs, LAMBDA x : x.id # id)

\* the cleanup function returned for registration h
CleanupAnyScope(P, T, h) ==
  [persistent |-> RemoveHandler(P, h.id), temporary |-> RemoveHandler(T, h.id)]

Cleanup(P, T, h) ==
  IF ~h.isPersistent
  THEN [persistent |-> P, temporary |-> RemoveHandler(T, h.id)]
  ELSE [persistent |-> P, temporary |-> T]

\* the test of ws.onmessage that decides whether a handler is called
InvokesAll(type, scope) == TRUE

InvokesGlobal(type, scope) ==
  \/ StartsWith(scope, "global")
  \/ type = "message" /\ StartsWith(scope, "channel")
  \/ type = "thread_message" /\ StartsWith(scope, "thread")

Invokes(type, scope) ==
  \/ type = "message" /\ StartsWith(scope, "channel")
  \/ type = "thread_message" /\ StartsWith(scope, "thread")

\* allHandlers.forEach(...) of ws.onmessage
Dispatch(P, T, e) ==
  IF e.type = "auth_success" THEN <<>>
  ELSE LET called == SelectSeq(P \o T, LAMBDA h : Invokes(e.type, h.scope))
       IN [k \in 1..Len(called) |->
             [handler |-> called[k].handler, scope |-> called[k].scope, env |-> e]]

InboundTypes ==
  {"auth_success", "message", "message_sent", "thread_message", "typing",
   "userStatus", "error"}

\* the values Math.random().toString(36).substring(7) can give after the calls
\* of reg: the value of an earlier call once more (the empty string of a short
\* expansion, or an equal draw) or a new one. The code compares ids with !==
\* only, so a value is named by the number of the first call that drew it
HandlerIds(reg) == {reg[k].id : k \in DOMAIN reg} \cup {Len(reg) + 1}

InitHandlers ==
  /\ persistentHandlers = <<>>
  /\ temporaryHandlers = <<>>
  /\ cleanups = {}
  /\ registered = <<>>
  /\ invoked = <<>>

\* addMessageHandler(handler, scope) with handlerId drawn as id
addMessageHandler(scope, id) ==
  /\ Len(registered) < MaxHandlers
  /\ LET h == Handler(id, scope, Len(registered) + 1)
     IN /\ IF h.isPersistent
           THEN /\ persistentHandlers' = AddHandler(persistentHandlers, h)
                /\ UNCHANGED temporaryHandlers
           ELSE /\ temporaryHandlers' = AddHandler(temporaryHandlers, h)
                /\ UNCHANGED persistentHandlers
        /\ cleanups' = cleanups \cup {h.handler}
        /\ registered' = Append(registered, [scope |-> scope, id |-> id])
  /\ invoked' = <<>>

\* the handler record of the n-th addMessageHandler call
Registration(n) == Handler(registered[n].id, registered[n].scope, n)

\* the cleanup function of registration n is called (view teardown)
cleanup(n) ==
  /\ n \in cleanups
  /\ LET r == Cleanup(persistentHandlers, temporaryHandlers, Registration(n))
     IN /\ persistentHandlers' = r.persistent
        /\ temporaryHandlers' = r.temporary
  /\ cleanups' = cleanups \ {n}
  /\ invoked' = <<>>
  /\ UNCHANGED registered

\* the cleanup function of registration n is called once more
cleanupAgain(n) ==
  /\ n \in 1..Len(registered)
  /\ n \notin cleanups
  /\ LET r == Cleanup(persistentHandlers, temporaryHandlers, Registration(n))
     IN /\ persistentHandlers' = r.persistent
        /\ temporaryHandlers' = r.temporary
  /\ invoked' = <<>>
  /\ UNCHANGED <<cleanups, registered>>

\* const allHandlers = [...persistentHandlersRef.current,
\* ...temporaryHandlersRef.current]: a new array
IteratedList(P, T) == P \o T

\* the element forEach hands to its callback at index k: that of the array
\* allHandlers, whatever arrays P and T the refs hold by then
VisitedLive(list, P, T, k) == IF k <= Len(P \o T) THEN (P \o T)[k] ELSE list[k]

Visited(list, P, T, k) == list[k]

PassActive == passPos >= 1 /\ passPos <= Len(passList)

InitPass ==
  /\ passList = <<>>
  /\ passPos = 0
  /\ passType = ""
  /\ passStart = <<>>
  /\ passCalls = <<>>
  /\ passChanged = FALSE

\* ws.onmessage of socket w starts the forEach over allHandlers
PassStart(w, t) ==
  /\ ws[w].state = "OPEN"
  /\ ~PassActive
  /\ passList' = IteratedList(persistentHandlers, temporaryHandlers)
  /\ passPos' = 1
  /\ passType' = t
  /\ passStart' = persistentHandlers \o temporaryHandlers
  /\ passCalls' = <<>>
  /\ passChanged' = FALSE

\* forEach visits the next element of allHandlers
PassStep ==
  /\ PassActive
  /\ LET h == Visited(passList, persistentHandlers, temporaryHandlers, passPos)
     IN passCalls' = IF Invokes(passType, h.scope)
                      THEN Append(passCalls, h.handler)
                      ELSE passCalls
  /\ passPos' = passPos + 1
  /\ UNCHANGED <<passList, passType, passStart, passChanged>>

\* addMessageHandler or a cleanup ran, possibly called by a handler of the
\* running pass: they assign the refs and write no array
Reentered ==
  /\ passChanged' = (passChanged \/ PassActive)
  /\ UNCHANGED <<passList, passPos, passType, passStart, passCalls>>

\* ws.onmessage of socket w for an envelope of the server
onmessage(w, e) ==
  /\ ws[w].state = "OPEN"
  /\ invoked' = Dispatch(persistentHandlers, temporaryHandlers, e)
  /\ UNCHANGED <<persistentHandlers, temporaryHandlers, cleanups, registered>>

\* ------------------------------------------------------------ server claims
\* the number of frames of a step's output that the loop sent for member u
SentFor(o, u) == Cardinality({k \in 1..Len(o) : o[k].for = u})

\* some row of channel_members makes u a member of ch
IsMember(ch, u) == \E k \in 1..Len(dbMembers) : dbMembers[k] = <<ch, u>>

\* member u of channel ch has an open registered connection
Reachable(ch, u) ==
  /\ IsMember(ch, u)
  /\ MapHas(clients, u)
  /\ readyState[MapGet(clients, u)] = "OPEN"

\* the registry entries whose key the store resolves to user u
EntriesOf(m, u) == {j \in 1..Len(m) : RowOf(m[j][1]) = u}

\* C1: in every reachable state the registry holds at most one connection entry
\* per user.
C1_AtMostOneEntryPerUser ==
  \A u \in Users : Cardinality(EntriesOf(clients, u)) <= 1

\* C2: one broadcastToChannel(c, e, u) call sends e exactly once for every member
\* of c, as returned by the store, that has an open registered connection and is
\* not u, to that member's registered connection, and sends nothing else.
C2_BroadcastExactRecipients ==
  [][\A i \in 1..Len(tasks) : BroadcastDone(i) =>
       LET t == tasks[i]
           e == Envelope(t.etype, t.userId, t.channelId, t.parentId, "")
       IN /\ \A u \in Users :
               SentFor(out', u) =
                 IF Reachable(t.channelId, u) /\ u # t.exclude THEN 1 ELSE 0
          /\ \A k \in 1..Len(out') :
               /\ out'[k].for \in Users
               /\ out'[k].to = MapGet(clients, out'[k].for)
               /\ out'[k].env = e]_vars

\* C3: no state is reachable in which a connection that was superseded in the
\* registry by a later auth of the same user is still open.
C3_SupersededConnectionClosed ==
  \A c \in Conns :
     (/\ Truthy(userId[c])
      /\ MapHas(clients, userId[c])
      /\ MapGet(clients, userId[c]) # c) => readyState[c] # "OPEN"

\* C4: the close of one connection leaves every registry entry that maps a user
\* to a different connection in place.
C4_CloseLeavesOtherEntries ==
  [][\A c \in Conns : CloseEvent(c) =>
       \A u \in Users :
          (MapHas(clients, u) /\ MapGet(clients, u) # c)
             => MapGet(clients', u) = MapGet(clients, u)]_vars

\* C5: a connection that has seen two heartbeat ticks without a pong is no longer
\* open (the second tick terminated it); its close handler removes its user from
\* the registry, and when the status update of the handler has settled, the
\* persisted status of the user (a user that has a row in the store) is offline
\* and the offline presence envelope was sent to every open registered
\* connection.
C5_Eviction ==
  [][/\ \A c \in Conns : missed'[c] >= 2 => readyState'[c] \in {"CLOSING", "CLOSED"}
     /\ \A c \in Conns : (CloseEvent(c) /\ Truthy(userId[c]) /\ missed[c] >= 2) =>
           EntriesOf(clients', RowOf(userId[c])) = {}
     /\ \A i \in 1..Len(tasks) :
           (/\ CloseStatusDone(i) \/ CloseStatusFail(i)
            /\ missed[tasks[i].conn] >= 2) =>
              LET u == tasks[i].userId
              IN /\ dbStatus[RowOf(u)] # "none" => dbStatus'[RowOf(u)] = "offline"
                 /\ \A j \in 1..Len(clients) :
                       readyState[clients[j][2]] = "OPEN" =>
                          \E k \in 1..Len(out') :
                             /\ out'[k].to = clients[j][2]
                             /\ out'[k].env = Envelope("userStatus", u, 0, 0, "offline")
    ]_vars

\* C6: the recipients of a broadcastToChannel call are members of the channel in
\* the store when the membership query is answered, whatever the connection
\* cached at authentication: a user whose cached set holds the channel but who
\* is no member gets nothing, a connected member whose cached set lacks the
\* channel is sent the envelope.
C6_RecipientsAreCurrentMembers ==
  [][\A i \in 1..Len(tasks) : BroadcastDone(i) =>
       LET ch == tasks[i].channelId
       IN /\ \A k \in 1..Len(out') : IsMember(ch, out'[k].for)
          /\ \A u \in Users :
                (/\ Reachable(ch, u)
                 /\ u # tasks[i].exclude
                 /\ ch \notin channels[MapGet(clients, u)])
                   => SentFor(out', u) >= 1]_vars

\* C6 witness: an envelope was broadcast to a connection whose auth handler has
\* completed and whose cached channel set does not hold the channel
C6_DeliveredOutsideCache ==
  \E k \in 1..Len(out) :
     /\ out[k].env.type \in {"message", "typing"}
     /\ out[k].env.channelId \notin channels[out[k].to]
     /\ dbStatus[out[k].for] = "online"
     /\ \A i \in 1..Len(tasks) : tasks[i].conn # out[k].to

\* the frames of a step's output that carry envelope e to connection c
FramesTo(o, c, e) == {k \in 1..Len(o) : o[k].to = c /\ o[k].env = e}

\* connection c is open and some registry entry points at it
RegisteredOpen(c) ==
  readyState[c] = "OPEN" /\ \E j \in 1..Len(clients) : clients[j][2] = c

\* C17: a frame that is no envelope (JSON.parse throws, or the value is null or
\* has no type) makes the server send exactly one error envelope, to the
\* connection the frame came from and to no other; the connection stays open,
\* and the registry, the persisted statuses and the pending work are unchanged.
C17_MalformedGetsError ==
  [][\A c \in Conns, f \in MalformedFrames : RecvMalformed(c, f) =>
       /\ out' = <<Sent(c, 0, Envelope("error", 0, 0, 0, ""))>>
       /\ readyState'[c] = "OPEN"
       /\ readyState' = readyState
       /\ clients' = clients
       /\ dbStatus' = dbStatus
       /\ tasks' = tasks]_vars

\* C18: a message or typing frame received on a connection with no userId is
\* dropped: the step sends nothing, starts no broadcast, and leaves the registry,
\* the persisted statuses and the connections as they were.
C18_UnauthenticatedDropped ==
  [][\A c \in Conns :
       (/\ ~Truthy(userId[c])
        /\ \/ \E ch \in 0..MaxChannel, p \in {0, 1} : RecvMessage(c, ch, p)
           \/ \E ch \in 0..MaxChannel : RecvTyping(c, ch)) =>
          /\ out' = <<>>
          /\ tasks' = tasks
          /\ clients' = clients
          /\ dbStatus' = dbStatus
          /\ readyState' = readyState]_vars

\* C18 witness: a message frame was dropped for want of a userId while a member
\* of a channel was connected and registered
C18_DroppedWhileMemberOnline ==
  /\ ignored = "message"
  /\ out = <<>>
  /\ tasks = <<>>
  /\ \E c \in Conns : readyState[c] = "OPEN" /\ ~Truthy(userId[c])
  /\ \E ch \in Channels, u \in Users : Reachable(ch, u)

\* C19: a frame that parses but matches no case of the switch is ignored: the
\* step sends nothing, starts no work, leaves the registry and the persisted
\* statuses unchanged and the connection open.
C19_UnhandledIgnored ==
  [][\A c \in Conns, f \in UnhandledFrames : RecvUnhandled(c, f) =>
       /\ out' = <<>>
       /\ tasks' = tasks
       /\ clients' = clients
       /\ dbStatus' = dbStatus
       /\ readyState'[c] = "OPEN"
       /\ readyState' = readyState]_vars

\* C19 witness: a frame of an unhandled type was received while a connection was
\* open and registered
C19_UnknownTypeReceived ==
  /\ ignored = "unknown"
  /\ out = <<>>
  /\ \E c \in Conns : RegisteredOpen(c)

\* C20: for an auth frame of user u (a user that has a row in the store) on
\* connection c, the status update of the handler sets the persisted status of
\* u to online, and when the handler completes, with c open and still
\* registered for u, the registry maps u to c, c was sent auth_success for u
\* once, and every other open registered connection was sent the envelope
\* userStatus {u, online} exactly once.
C20_AuthAnnouncedOnce ==
  [][/\ \A i \in 1..Len(tasks) : AuthStatusDone(i) =>
          LET u == tasks[i].userId
          IN (u \in StoreUsers /\ dbStatus[u] # "none") => dbStatus'[u] = "online"
     /\ \A i \in 1..Len(tasks) : AuthChannelsDone(i) =>
          LET c == tasks[i].conn
              u == tasks[i].userId
          IN (/\ u \in StoreUsers
              /\ readyState[c] = "OPEN"
              /\ MapGet(clients, u) = c) =>
               /\ MapGet(clients', u) = c
               /\ Cardinality(FramesTo(out', c, Envelope("auth_success", u, 0, 0, ""))) = 1
               /\ \A d \in Conns \ {c} :
                     RegisteredOpen(d) =>
                       Cardinality(FramesTo(out', d,
                          Envelope("userStatus", u, 0, 0, "online"))) = 1]_vars

\* C21: the close of a connection authenticated as u removes the registry entry
\* of u at once and leaves the entries of the other users; when the status
\* update of the handler has settled, the persisted status of u (if u has a row
\* in the store) is offline and userStatus {u, offline}, and nothing else, was
\* sent to every registry entry whose connection is open; the close of a
\* connection that never authenticated changes neither the registry nor the
\* store, sends nothing and starts no work.
C21_CloseDeregisters ==
  [][/\ \A c \in Conns : CloseEvent(c) =>
          IF Truthy(userId[c])
          THEN /\ EntriesOf(clients', RowOf(userId[c])) = {}
               /\ \A u \in Users : u # RowOf(userId[c]) =>
                     MapGet(clients', u) = MapGet(clients, u)
               /\ tasks' = Append(tasks,
                              Task("close_status", c, userId[c], 0, 0, "", 0))
          ELSE /\ clients' = clients
               /\ tasks' = tasks
               /\ dbStatus' = dbStatus
               /\ out' = <<>>
     /\ \A i \in 1..Len(tasks) : (CloseStatusDone(i) \/ CloseStatusFail(i)) =>
          LET u == tasks[i].userId
              e == Envelope("userStatus", u, 0, 0, "offline")
          IN /\ dbStatus[RowOf(u)] # "none" =>
                   dbStatus' = [dbStatus EXCEPT ![RowOf(u)] = "offline"]
             /\ dbStatus[RowOf(u)] = "none" => dbStatus' = dbStatus
             /\ clients' = clients
             /\ \A k \in 1..Len(out') : out'[k].env = e
             /\ \A j \in 1..Len(clients) :
                   Cardinality({k \in 1..Len(out') :
                                  out'[k].to = clients[j][2] /\ out'[k].for = clients[j][1]})
                     = IF readyState[clients[j][2]] = "OPEN" THEN 1 ELSE 0]_vars

\* C22: when the status update of an auth frame for u on c fails, the client
\* sees nothing of it (no envelope is sent, c stays open) and the registry still
\* maps u to c.
C22_StatusFailureSilent ==
  [][\A i \in 1..Len(tasks) : AuthStatusFail(i) =>
       LET c == tasks[i].conn
           u == tasks[i].userId
       IN /\ out' = <<>>
          /\ readyState'[c] = readyState[c]
          /\ (MapGet(clients, u) = c => MapGet(clients', u) = c)]_vars

\* C23: a thread_message frame received on an authenticated connection starts
\* the broadcast of a thread_message envelope to the members of its channel.
C23_ThreadMessageRouted ==
  [][\A c \in Conns :
       (RecvUnhandled(c, "thread_message") /\ Truthy(userId[c])) =>
          \E i \in 1..Len(tasks') :
             tasks'[i].kind = "bcast" /\ tasks'[i].etype = "thread_message"]_vars

\* C24: a typing frame with a channelId on a connection authenticated as u
\* starts one broadcast of typing {u, channelId} that excludes nobody and writes
\* neither the store nor the registry; the broadcast sends that envelope exactly
\* once for each current member of the channel with an open registered
\* connection, the sender included, and nothing else.
C24_TypingToAllMembers ==
  [][/\ \A c \in Conns, ch \in Channels :
          (RecvTyping(c, ch) /\ Truthy(userId[c])) =>
             /\ tasks' = Append(tasks, Task("bcast", 0, userId[c], ch, 0, "typing", 0))
             /\ clients' = clients
             /\ dbStatus' = dbStatus
             /\ dbMembers' = dbMembers
     /\ \A i \in 1..Len(tasks) :
          (BroadcastDone(i) /\ tasks[i].etype = "typing") =>
             LET t == tasks[i]
             IN /\ \A u \in Users :
                     SentFor(out', u) = IF Reachable(t.channelId, u) THEN 1 ELSE 0
                /\ \A k \in 1..Len(out') :
                     /\ out'[k].env = Envelope("typing", t.userId, t.channelId, 0, "")
                     /\ out'[k].to = MapGet(clients, out'[k].for)
                /\ clients' = clients
                /\ dbStatus' = dbStatus
                /\ dbMembers' = dbMembers]_vars

\* C30: a heartbeat tick terminates an open connection only if its alive flag is
\* false, and the flag is false only if a tick cleared it and no pong came
\* since; a connection with a pong since the last tick, or none yet, survives.
C30_TerminateOnlyUnacknowledged ==
  /\ [](\A c \in Conns :
          readyState[c] = "OPEN" => (isAlive[c] = FALSE <=> missed[c] >= 1))
  /\ [][HeartbeatTick =>
          \A c \in Conns :
             /\ (readyState[c] = "OPEN" /\ readyState'[c] # "OPEN") =>
                   (isAlive[c] = FALSE /\ missed[c] >= 1)
             /\ (readyState[c] = "OPEN" /\ missed[c] = 0) =>
                   (readyState'[c] = "OPEN" /\ isAlive'[c] = FALSE)]_vars

\* C30 witness: the first connection has answered its last probe and is open,
\* the second, accepted later, was terminated after a probe without answer
C30_AcknowledgingSurvives ==
  /\ readyState[1] = "OPEN" /\ isAlive[1] /\ missed[1] = 0
  /\ readyState[2] \in {"CLOSING", "CLOSED"} /\ missed[2] = 2

\* ------------------------------------------------------------ client claims
\* the close event of socket w is handled in this step
ClosedNow(w) == onerror(w) \/ \E code \in {1000, 1001, 1005} : onclose(w, code)

\* a new WebSocket was created in slot w in this step
CreatedNow(w) == ws'[w].state = "CONNECTING" /\ ws[w].state # "CONNECTING"

PendingTimers(T) == {w \in Sockets : T[w].state = "PENDING"}

ExpectedDelays == <<1000, 2000, 4000, 8000, 10000>>

\* C7: while the transport keeps closing without an open (and without a
\* visibility regain) the reconnect delays are 1000, 2000, 4000, 8000, 10000 ms
\* in this order, one per counted attempt, and no sixth reconnect is scheduled.
C7_ReconnectDelays ==
  /\ Len(delayLog) <= 5
  /\ Len(delayLog) = reconnectAttempts
  /\ \A i \in 1..Len(delayLog) : delayLog[i] = ExpectedDelays[i]
  /\ \A w \in PendingTimers(timers) :
        \E i \in 1..5 : timers[w].delay = ExpectedDelays[i]

\* C7 witness: all five delays were waited and the sixth close scheduled nothing
C7_AllFiveDelays ==
  /\ delayLog = ExpectedDelays
  /\ connErrorShown
  /\ PendingTimers(timers) = {}

\* C8 as claimed: once the connection error was raised after 5 failed attempts, no
\* connection attempt is started, by the reconnect timer or by sendMessage,
\* unless the session is remounted or the page regains visibility.
C8_NoAttemptAfterExhaustion ==
  [][(/\ connErrorShown
      /\ reconnectAttempts >= maxReconnectAttempts
      /\ gen' = gen
      /\ visible' = visible) => \A w \in Sockets : ~CreatedNow(w)]_vars

\* C8 as amended: a close event handled while the attempt counter is at
\* maxReconnectAttempts raises the connection error, schedules no reconnect timer
\* and leaves the counter and the timers where they are; no step sets a
\* reconnect timer while the counter is at maxReconnectAttempts, so the only
\* reconnect timers that fire afterwards were pending before; and a sendMessage
\* call made while the transport is not open creates a socket, whatever the
\* counter, exactly when the connect() of its render has a user and
\* isConnectingRef is not set.
C8_ExhaustedCloseShowsError ==
  [][/\ \A w \in Sockets :
          (ClosedNow(w) /\ reconnectAttempts >= maxReconnectAttempts) =>
             /\ connErrorShown'
             /\ timers' = timers
             /\ timers'[w].state = "NONE"
             /\ reconnectAttempts' = reconnectAttempts
     /\ reconnectAttempts >= maxReconnectAttempts =>
          PendingTimers(timers') \subseteq PendingTimers(timers)
     /\ \A f \in renders :
          (sendMessage(f) /\ ~IsOpen(ws, wsRef)) =>
             ((\E w \in Sockets : CreatedNow(w)) <=> (f[1] # 0 /\ ~isConnecting))
    ]_vars

\* C8 witness: five reconnects failed and the error is shown, no reconnect timer
\* is pending, the counter is still at maxReconnectAttempts, and a socket is
\* connecting that only the one sendMessage call can have created: it belongs
\* to a render whose effect has not run
C8_SendAfterExhaustion ==
  /\ connErrorShown
  /\ reconnectAttempts = maxReconnectAttempts
  /\ PendingTimers(timers) = {}
  /\ nSend = 1
  /\ \E w \in Sockets : ws[w].state = "CONNECTING" /\ ws[w].cgen > gen

\* C9: a close with the normal-closure code 1000 schedules no reconnect timer and
\* leaves the client disconnected; any other close, with a user logged in, the
\* page visible and attempts left, leaves exactly one reconnect timer pending.
C9_NormalClosureTerminal ==
  [][\A w \in Sockets :
       /\ onclose(w, 1000) =>
            (PendingTimers(timers') = PendingTimers(timers) /\ wsRef' = 0)
       /\ ((onerror(w) \/ onclose(w, 1001) \/ onclose(w, 1005))
             /\ ~onclose(w, 1000)
             /\ ws[w].cuser # 0 /\ visible
             /\ reconnectAttempts < maxReconnectAttempts) =>
            Cardinality(PendingTimers(timers')) = 1]_vars

\* C10: after the effect cleanup, no WebSocket is created for the torn-down
\* session: no socket is created once the hook is unmounted, and every socket
\* is created by a connect closure whose effect was not cleaned up.
C10_NoConnectAfterTeardown ==
  [][\A w \in Sockets :
       CreatedNow(w) => (phase' # "gone" /\ ws'[w].cgen >= gen')]_vars

\* the sockets of the hook that are connecting or open
LiveSockets == {w \in Sockets : ws[w].state \in {"CONNECTING", "OPEN"}}

\* C11: in every reachable state of one client session at most one transport is
\* connecting or open.
C11_SingleTransport == Cardinality(LiveSockets) <= 1

\* C12: a sendMessage call made while the transport is not open sends nothing in
\* that step, calls the connect() of its render and sets one retry; the retry is taken once, and it
\* either hands the frame to the open socket or raises the send error and drops
\* the frame.  The frame of a call is handed to a socket at most once, never
\* after its send error, and no step other than the call and its retry sends it.
C12_SingleRetry ==
  /\ [](\A k \in MsgIds :
          /\ transmitted[k] <= 1
          /\ k \in sendError => (transmitted[k] = 0 /\ k \notin retry)
          /\ k \in retry => (transmitted[k] = 0 /\ k <= nSend))
  /\ [][/\ \A r \in renders : (sendMessage(r) /\ ~IsOpen(ws, wsRef)) =>
             /\ retry' = retry \cup {nSend + 1}
             /\ wsSent' = wsSent
             /\ ws' = connect(r[1], r[2], ws, wsRef, isConnecting).ws
        /\ \A k \in MsgIds : RetryFire(k) =>
             /\ k \notin retry'
             /\ IF IsOpen(ws, wsRef)
                THEN transmitted'[k] = 1 /\ sendError' = sendError
                ELSE k \in sendError' /\ transmitted'[k] = 0 /\ wsSent' = wsSent
        /\ (transmitted' # transmitted \/ retry' # retry) =>
             ((\E r \in renders : sendMessage(r)) \/ \E k \in MsgIds : RetryFire(k))
       ]_vars

\* C12 witness: the retry found the transport not open, the send error was
\* raised, and a socket opened later without the frame being sent on it
C12_DroppedNotQueued ==
  \E k \in MsgIds :
     /\ k \in sendError
     /\ transmitted[k] = 0
     /\ \E w \in Sockets : ws[w].state = "OPEN" /\ wsSent[w] = <<<<"auth", ws[w].cuser>>>>

\* C13: an inbound message envelope is dispatched only to handlers of scope
\* channel-<channelId of the envelope>, an inbound thread_message envelope only
\* to handlers of scope thread-<parentId of the envelope>.
C13_DispatchMatchesId ==
  \A k \in 1..Len(invoked) :
     /\ invoked[k].env.type = "message" =>
          invoked[k].scope = Scope("channel", invoked[k].env.channelId)
     /\ invoked[k].env.type = "thread_message" =>
          invoked[k].scope = Scope("thread", invoked[k].env.parentId)

\* C14: no handler of a thread-* scope is called for a message envelope and no
\* handler of a channel-* scope is called for a thread_message envelope.
C14_ScopeKindIsolation ==
  \A k \in 1..Len(invoked) :
     /\ StartsWith(invoked[k].scope, "thread") => invoked[k].env.type # "message"
     /\ StartsWith(invoked[k].scope, "channel") =>
          invoked[k].env.type # "thread_message"

\* C14 witness: with a channel handler and a thread handler registered, a message
\* envelope called the channel handler only
C14_ChannelOnly ==
  /\ Len(invoked) = 1
  /\ invoked[1].env.type = "message"
  /\ StartsWith(invoked[1].scope, "channel")
  /\ \E i \in 1..Len(temporaryHandlers) :
        StartsWith(temporaryHandlers[i].scope, "thread")

\* the number of the latest addMessageHandler call for scope sc
Latest(sc) ==
  CHOOSE i \in 1..Len(registered) :
     /\ registered[i].scope = sc
     /\ \A j \in 1..Len(registered) : registered[j].scope = sc => j <= i

\* C15: the handler set holds at most one registration per channel-<id> scope,
\* the one of the latest addMessageHandler call for that scope, and a dispatch
\* calls that one only.
C15_OnePerChannelScope ==
  /\ \A i, j \in 1..Len(persistentHandlers) :
        persistentHandlers[i].scope = persistentHandlers[j].scope => i = j
  /\ \A i \in 1..Len(persistentHandlers) :
        /\ StartsWith(persistentHandlers[i].scope, "channel")
        /\ persistentHandlers[i].handler = Latest(persistentHandlers[i].scope)
  /\ \A i \in 1..Len(temporaryHandlers) :
        ~StartsWith(temporaryHandlers[i].scope, "channel")
  /\ \A k \in 1..Len(invoked) :
        StartsWith(invoked[k].scope, "channel") =>
           invoked[k].handler = Latest(invoked[k].scope)

\* C15 witness: a channel scope was registered twice and a message called the
\* second registration alone
C15_Replaced ==
  /\ Len(invoked) = 1
  /\ StartsWith(invoked[1].scope, "channel")
  /\ invoked[1].handler > 1
  /\ \E i \in 1..Len(registered) :
        i < invoked[1].handler /\ registered[i].scope = invoked[1].scope

\* the handler of registration n is in the sequence hs
Holds(hs, n) == \E i \in 1..Len(hs) : hs[i].handler = n

\* C16: the cleanup of a thread-* registration removes that registration; the
\* cleanup of a channel-* registration leaves both handler lists unchanged, so
\* the registration of a channel scope stays in the handler set, cleaned up or
\* not, until the scope is registered again.
C16_CleanupByScope ==
  /\ [][\A n \in cleanups : cleanup(n) =>
          IF StartsWith(registered[n].scope, "thread")
          THEN /\ ~Holds(temporaryHandlers', n)
               /\ persistentHandlers' = persistentHandlers
          ELSE StartsWith(registered[n].scope, "channel") =>
                 /\ persistentHandlers' = persistentHandlers
                 /\ temporaryHandlers' = temporaryHandlers]_vars
  /\ [](\A n \in 1..Len(registered) :
          (StartsWith(registered[n].scope, "channel") /\ n = Latest(registered[n].scope))
             => Holds(persistentHandlers, n))

\* C16 witness: a channel handler whose cleanup was called is called for a
\* message, and a thread registration whose cleanup was called is gone
C16_ChannelSurvivesCleanup ==
  /\ \E k \in 1..Len(invoked) :
        StartsWith(invoked[k].scope, "channel") /\ invoked[k].handler \notin cleanups
  /\ \E n \in 1..Len(registered) :
        /\ StartsWith(registered[n].scope, "thread")
        /\ n \notin cleanups
        /\ ~Holds(temporaryHandlers, n)
        /\ \A j \in 1..Len(registered) :
              registered[j].scope = registered[n].scope => j = n

\* C31: the handler of a message frame starts one broadcast of the message
\* envelope and, exactly when the frame carries a parentId, one broadcast of the
\* thread_message envelope with the same author, channel and parentId, both
\* excluding the sender; each of the two broadcasts sends its envelope exactly
\* once to every connected member of the channel other than the sender and to
\* nobody else, and no thread_message envelope is sent for a frame without
\* parentId.
C31_ThreadBroadcastTwice ==
  [][/\ \A i \in 1..Len(tasks) : MessageUserDone(i) =>
          LET c == tasks[i].conn
              p == tasks[i].parentId
              n == IF p # 0 THEN 2 ELSE 1
          IN /\ Len(tasks') = Len(tasks) + n - 1
             /\ \A k \in 0..(n - 1) :
                   /\ tasks'[i + k].kind = "bcast"
                   /\ tasks'[i + k].etype = IF k = 0 THEN "message" ELSE "thread_message"
                   /\ tasks'[i + k].userId = userId[c]
                   /\ tasks'[i + k].exclude = userId[c]
                   /\ tasks'[i + k].channelId = tasks[i].channelId
                   /\ tasks'[i + k].parentId = p
     /\ \A i \in 1..Len(tasks) :
          (BroadcastDone(i) /\ tasks[i].etype \in {"message", "thread_message"}) =>
             LET t == tasks[i]
             IN /\ t.etype = "thread_message" => t.parentId # 0
                /\ \A u \in Users :
                      SentFor(out', u) =
                        IF Reachable(t.channelId, u) /\ u # t.userId THEN 1 ELSE 0
                /\ \A k \in 1..Len(out') :
                      out'[k].env = Envelope(t.etype, t.userId, t.channelId,
                                             t.parentId, "")]_vars

\* C32: no broadcast of a message or thread_message envelope sends it to the
\* registered connection of its author, and the step that resumes the handler of
\* the frame sends exactly one message_sent envelope to the originating
\* connection (while that connection is open), before either broadcast has
\* completed.
C32_SenderNotEchoed ==
  [][/\ \A i \in 1..Len(tasks) :
          (BroadcastDone(i) /\ tasks[i].etype \in {"message", "thread_message"}) =>
             \A k \in 1..Len(out') : out'[k].to # MapGet(clients, tasks[i].userId)
     /\ \A i \in 1..Len(tasks) :
          (MessageUserDone(i) /\ readyState[tasks[i].conn] = "OPEN") =>
             /\ Len(out') = 1
             /\ out'[1].to = tasks[i].conn
             /\ out'[1].env.type = "message_sent"
             /\ out'[1].env.channelId = tasks[i].channelId]_vars

\* C33: every message, thread_message and typing envelope that is broadcast
\* carries the userId of the connection its frame arrived on and the channelId
\* of that frame, whatever userId property the frame itself had.
C33_AuthorIsConnectionUser ==
  [][/\ \A i \in 1..Len(tasks) : MessageUserDone(i) =>
          \A k \in i..(i + Len(tasks') - Len(tasks)) :
             /\ tasks'[k].kind = "bcast"
             /\ tasks'[k].userId = userId[tasks[i].conn]
             /\ tasks'[k].channelId = tasks[i].channelId
     /\ \A c \in Conns, ch \in Channels, du \in 0..MaxUser :
          (RecvTypingData(c, ch, du) /\ Truthy(userId[c])) =>
             /\ tasks'[Len(tasks')].etype = "typing"
             /\ tasks'[Len(tasks')].userId = userId[c]
             /\ tasks'[Len(tasks')].channelId = ch
     /\ \A i \in 1..Len(tasks) : BroadcastDone(i) =>
          \A k \in 1..Len(out') :
             /\ out'[k].env.type = tasks[i].etype
             /\ out'[k].env.userId = tasks[i].userId
             /\ out'[k].env.channelId = tasks[i].channelId]_vars

\* C33 witness: the message envelope of a frame that claimed another user's id
\* was delivered with the id of the connection's user, and the thread_message
\* broadcast of the same frame is still waiting for its membership query
C33_SpoofedFrameDelivered ==
  \E k \in 1..Len(out), i \in 1..Len(tasks) :
     /\ out[k].env.type = "message"
     /\ tasks[i].kind = "bcast"
     /\ tasks[i].etype = "thread_message"
     /\ tasks[i].userId = out[k].env.userId
     /\ tasks[i].claimed # 0
     /\ tasks[i].claimed # out[k].env.userId

\* a handler of connection c is suspended on a store call
Suspended(c) == \E i \in 1..Len(tasks) : tasks[i].conn = c

\* C34: once a connection is closed and none of its handlers is suspended, no
\* registry entry refers to it.
C34_ClosedConnectionUnregistered ==
  \A c \in Conns :
     (readyState[c] = "CLOSED" /\ ~Suspended(c)) =>
        \A i \in 1..Len(clients) : clients[i][2] # c

\* no auth or close handler is suspended on a store call
Quiescent ==
  \A i \in 1..Len(tasks) :
     tasks[i].kind \notin {"auth_status", "auth_channels", "close_status"}

\* C35: in every state with no auth or close handler suspended, a user's
\* persisted status is online exactly if the registry holds an entry for that
\* user.
C35_StatusMatchesRegistry ==
  Quiescent =>
     \A u \in Users : (dbStatus[u] = "online") <=> MapHas(clients, u)

\* C37: when the thread_message broadcast of a frame sends its envelope to a
\* recipient, the message broadcast of the same frame has already completed.
C37_MessageBeforeThread ==
  [][\A i \in 1..Len(tasks) :
       (BroadcastDone(i) /\ tasks[i].etype = "thread_message" /\ out' # <<>>) =>
          ~\E j \in 1..Len(tasks) :
              /\ tasks[j].kind = "bcast"
              /\ tasks[j].etype = "message"
              /\ tasks[j].userId = tasks[i].userId
              /\ tasks[j].channelId = tasks[i].channelId
              /\ tasks[j].parentId = tasks[i].parentId]_vars

\* C38: whenever isConnectingRef is set, some transport is in connecting state,
\* and the open and the close event of every transport clear the flag.
C38_ConnectingHasTransport ==
  /\ [](isConnecting => \E w \in Sockets : ws[w].state = "CONNECTING")
  /\ [][\A w \in Sockets :
          (onopen(w) \/ ClosedNow(w)) => ~isConnecting']_vars

\* C38 witness: the flag is set while the socket the hook refers to is connecting
\* after a reconnect
C38_Reconnecting ==
  /\ isConnecting
  /\ wsRef # 0
  /\ ws[wsRef].state = "CONNECTING"
  /\ reconnectAttempts >= 1

\* C39: a call of the cleanup of a thread-* registration removes the handler
\* of that registration and no other: a registration that was already replaced
\* by a newer one of the same scope is gone, so its cleanup changes nothing and
\* the newer handler stays; a second call of a cleanup changes nothing.
C39_CleanupById ==
  [][\A n \in 1..MaxHandlers :
       ((cleanup(n) \/ cleanupAgain(n)) /\ StartsWith(registered[n].scope, "thread")) =>
          /\ persistentHandlers' = persistentHandlers
          /\ ~Holds(temporaryHandlers', n)
          /\ \A j \in 1..MaxHandlers :
                j # n => (Holds(temporaryHandlers', j) <=> Holds(temporaryHandlers, j))
          /\ n # Latest(registered[n].scope) => temporaryHandlers' = temporaryHandlers
          /\ cleanupAgain(n) => temporaryHandlers' = temporaryHandlers]_vars

\* C36: a dispatch pass for an envelope whose type is neither message nor
\* thread_message calls no handler, and no pass calls a handler that was
\* registered with the scope global.
C36_OnlyChannelAndThread ==
  /\ passType \notin {"message", "thread_message"} => passCalls = <<>>
  /\ \A k \in 1..Len(passCalls) : ~StartsWith(registered[passCalls[k]].scope, "global")

\* C36 witness: a pass for a typing envelope over a global and a channel handler
\* has ended without a call
C36_TypingReachesNobody ==
  /\ passType = "typing"
  /\ passPos = Len(passList) + 1
  /\ \E i, j \in 1..Len(passList) :
        /\ StartsWith(passList[i].scope, "global")
        /\ StartsWith(passList[j].scope, "channel")
  /\ passCalls = <<>>

\* the callbacks of a sequence of handlers
Ids(hs) == [k \in 1..Len(hs) |-> hs[k].handler]

\* the handlers among the first n of hs that a pass for type t calls
CalledAmong(hs, n, t) ==
  SelectSeq(SubSeq(hs, 1, n), LAMBDA h : Invokes(t, h.scope))

\* C25: the teardown of a view, which runs the cleanup of the effect of the
\* view's useWebSocket(), closes no transport: every open socket stays open.
C25_TeardownKeepsTransport ==
  [][Unmount => \A w \in Sockets : ws[w].state = "OPEN" => ws'[w].state = "OPEN"]_vars

\* C26: a dispatch pass visits the handlers that were registered when it
\* started, each once and in order, whatever is registered or removed while it
\* runs: the handlers called so far are those among the visited part of that
\* list whose scope prefix matches the type of the envelope.
C26_PassUsesSnapshot ==
  passPos >= 1 =>
     /\ passPos <= Len(passStart) + 1
     /\ passCalls = Ids(CalledAmong(passStart, passPos - 1, passType))
     /\ \A i, j \in 1..Len(passCalls) : passCalls[i] = passCalls[j] => i = j

\* C26 witness: a pass that called two handlers has ended, and the registry was
\* changed while it ran
C26_ChangedDuringPass ==
  /\ passChanged
  /\ passPos = Len(passList) + 1
  /\ Len(passCalls) >= 2
  /\ persistentHandlers \o temporaryHandlers # passStart

\* C27: the open of a transport sets the attempt counter to 0 and leaves no
\* reconnect timer pending, and a reconnect scheduled while the counter is 0
\* waits 1000 ms.
C27_OpenResetsBackoff ==
  [][/\ \A w \in Sockets : onopen(w) =>
          /\ reconnectAttempts' = 0
          /\ PendingTimers(timers') = {}
          /\ reconnectTimeoutRef' = 0
     /\ \A w \in Sockets :
          (ClosedNow(w) /\ reconnectAttempts = 0 /\ timers'[w].state = "PENDING") =>
             timers'[w].delay = 1000]_vars

\* C27 witness: after the five attempts were used up a transport opened, and the
\* counter is 0 again
C27_OpenAfterExhaustion ==
  /\ connErrorShown
  /\ reconnectAttempts = 0
  /\ \E w \in Sockets : ws[w].state = "OPEN" /\ wsSent[w] = <<<<"auth", ws[w].cuser>>>>

\* C28: a visibility regain with the hook mounted, a user logged in and the
\* transport not open sets the attempt counter to 0 and, unless
\* isConnectingRef is set, creates a socket for that user; otherwise it changes
\* nothing; and a close handled while the page is hidden schedules no reconnect
\* and counts no attempt.
C28_VisibilityRegain ==
  [][/\ handleVisibilityChange =>
          IF ListenerOn /\ user # 0 /\ ~IsOpen(ws, wsRef)
          THEN /\ reconnectAttempts' = 0
               /\ IF isConnecting
                  THEN ws' = ws /\ wsRef' = wsRef
                  ELSE \E w \in Sockets :
                          /\ CreatedNow(w)
                          /\ wsRef' = w
                          /\ ws'[w].cuser = user
                          /\ \A v \in Sockets \ {w} : ws'[v] = ws[v]
          ELSE /\ ws' = ws
               /\ wsRef' = wsRef
               /\ reconnectAttempts' = reconnectAttempts
     /\ \A w \in Sockets :
          (ClosedNow(w) /\ ~visible) =>
             /\ timers' = timers
             /\ reconnectAttempts' = reconnectAttempts]_vars

\* C29: the first frame handed to every open transport is the auth envelope of
\* the session's current user.
C29_AuthOfSessionUserFirst ==
  \A w \in Sockets :
     ws[w].state = "OPEN" =>
        (Len(wsSent[w]) >= 1 /\ wsSent[w][1] = <<"auth", user>>)

Init == InitServer /\ InitClient /\ InitHandlers /\ InitPass /\ ignored = ""

\* a store without rows in channel_members
InitEmpty == Init /\ dbMembers = <<>>

\* a store that no server has used: every user has a row without status and
\* channel_members is empty
InitFresh == InitEmpty /\ dbStatus = [u \in StoreUsers |-> "null"]

\* a store in which every user has a row without status and channel_members
\* is empty or holds the rows of one channel that every user is a member of
InitFrames ==
  /\ Init
  /\ dbStatus = [u \in StoreUsers |-> "null"]
  /\ dbMembers \in {<<>>} \cup
       {r \in RowBatches :
          Len(r) = MaxUser /\ \A k \in DOMAIN r : r[k][1] = r[1][1]}

Next ==
  \/ \E c \in Conns : Connection(c) /\ UNCHANGED outsideServer
  \/ \E c \in Conns, u \in SessionIds : RecvAuth(c, u) /\ UNCHANGED outsideServer
  \/ \E i \in 1..(MaxTasks + 1) : AuthStatusDone(i) /\ UNCHANGED outsideServer
  \/ \E i \in 1..(MaxTasks + 1) : AuthChannelsDone(i) /\ UNCHANGED outsideServer
  \/ \E c \in Conns, ch \in Channels, p \in {0, 1} :
        RecvMessage(c, ch, p) /\ UNCHANGED outsideServer
  \/ \E i \in 1..(MaxTasks + 1) : MessageUserDone(i) /\ UNCHANGED outsideServer
  \/ \E i \in 1..(MaxTasks + 1) : MessageUserFail(i) /\ UNCHANGED outsideServer
  \/ \E c \in Conns, ch \in Channels : RecvTyping(c, ch) /\ UNCHANGED outsideServer
  \/ \E i \in 1..(MaxTasks + 1) : BroadcastDone(i) /\ UNCHANGED outsideServer
  \/ \E i \in 1..(MaxTasks + 1) : BroadcastFail(i) /\ UNCHANGED outsideServer
  \/ \E c \in Conns : CloseFrame(c) /\ UNCHANGED outsideServer
  \/ \E c \in Conns : CloseEvent(c) /\ UNCHANGED outsideServer
  \/ \E i \in 1..(MaxTasks + 1) : CloseStatusDone(i) /\ UNCHANGED outsideServer
  \/ \E rows \in RowBatches : MemberInsert(rows) /\ UNCHANGED outsideServer

\* the server: connections, auth, message and typing frames, closes, and the
\* store gaining members
Spec == InitFresh /\ [][Next]_vars

NextHeartbeat ==
  \/ \E c \in Conns : Connection(c) /\ UNCHANGED outsideServer
  \/ \E c \in Conns, u \in SessionIds : RecvAuth(c, u) /\ UNCHANGED outsideServer
  \/ \E i \in 1..(MaxTasks + 1) : AuthStatusDone(i) /\ UNCHANGED outsideServer
  \/ \E i \in 1..(MaxTasks + 1) : AuthChannelsDone(i) /\ UNCHANGED outsideServer
  \/ \E c \in Conns : CloseFrame(c) /\ UNCHANGED outsideServer
  \/ \E c \in Conns : CloseEvent(c) /\ UNCHANGED outsideServer
  \/ \E i \in 1..(MaxTasks + 1) : CloseStatusDone(i) /\ UNCHANGED outsideServer
  \/ \E i \in 1..(MaxTasks + 1) : CloseStatusFail(i) /\ UNCHANGED outsideServer
  \/ \E u \in StoreUsers : register(u) /\ UNCHANGED outsideServer
  \/ HeartbeatTick /\ UNCHANGED outsideServer
  \/ \E c \in Conns : heartbeat(c) /\ UNCHANGED outsideServer

\* the server: connections, auth frames, closes whose status update resolves or
\* rejects, registrations and the heartbeat interval
SpecHeartbeat == InitEmpty /\ [][NextHeartbeat]_vars

NextStore ==
  \/ \E c \in Conns : Connection(c) /\ UNCHANGED outsideServer
  \/ \E c \in Conns, u \in SessionIds : RecvAuth(c, u) /\ UNCHANGED outsideServer
  \/ \E i \in 1..(MaxTasks + 1) : AuthStatusDone(i) /\ UNCHANGED outsideServer
  \/ \E i \in 1..(MaxTasks + 1) : AuthChannelsDone(i) /\ UNCHANGED outsideServer
  \/ \E c \in Conns, ch \in Channels : RecvTyping(c, ch) /\ UNCHANGED outsideServer
  \/ \E i \in 1..(MaxTasks + 1) : BroadcastDone(i) /\ UNCHANGED outsideServer
  \/ \E i \in 1..(MaxTasks + 1) : BroadcastFail(i) /\ UNCHANGED outsideServer
  \/ \E u \in StoreUsers : register(u) /\ UNCHANGED outsideServer
  \/ \E rows \in RowBatches : MemberInsert(rows) /\ UNCHANGED outsideServer
  \/ clearTablesMembers /\ UNCHANGED outsideServer
  \/ clearTablesUsers /\ UNCHANGED outsideServer
  \/ clearTablesAbort /\ UNCHANGED outsideServer

\* the server broadcasting typing frames while the store gains rows of
\* channel_members and the clearTables script empties the tables
SpecStore == InitEmpty /\ [][NextStore]_vars

NextAuthor ==
  \/ \E c \in Conns : Connection(c) /\ UNCHANGED outsideServer
  \/ \E c \in Conns, u \in SessionIds : RecvAuth(c, u) /\ UNCHANGED outsideServer
  \/ \E i \in 1..(MaxTasks + 1) : AuthStatusDone(i) /\ UNCHANGED outsideServer
  \/ \E i \in 1..(MaxTasks + 1) : AuthChannelsDone(i) /\ UNCHANGED outsideServer
  \/ \E c \in Conns, ch \in Channels, p \in {0, 1}, du \in 0..MaxUser :
        RecvMessageData(c, ch, p, du) /\ UNCHANGED outsideServer
  \/ \E i \in 1..(MaxTasks + 1) : MessageUserDone(i) /\ UNCHANGED outsideServer
  \/ \E i \in 1..(MaxTasks + 1) : MessageUserFail(i) /\ UNCHANGED outsideServer
  \/ \E c \in Conns, ch \in Channels, du \in 0..MaxUser :
        RecvTypingData(c, ch, du) /\ UNCHANGED outsideServer
  \/ \E i \in 1..(MaxTasks + 1) : BroadcastDone(i) /\ UNCHANGED outsideServer
  \/ \E i \in 1..(MaxTasks + 1) : BroadcastFail(i) /\ UNCHANGED outsideServer
  \/ \E rows \in RowBatches : MemberInsert(rows) /\ UNCHANGED outsideServer

\* the server handling message and typing frames that may carry a userId
\* property of their own
SpecAuthor == InitFresh /\ [][NextAuthor]_vars

NextAuth ==
  \/ \E c \in Conns : Connection(c) /\ UNCHANGED outsideServer
  \/ \E c \in Conns, u \in SessionIds : RecvAuth(c, u) /\ UNCHANGED outsideServer
  \/ \E i \in 1..(MaxTasks + 1) : AuthStatusDone(i) /\ UNCHANGED outsideServer
  \/ \E i \in 1..(MaxTasks + 1) : AuthChannelsDone(i) /\ UNCHANGED outsideServer
  \/ \E c \in Conns : CloseFrame(c) /\ UNCHANGED outsideServer
  \/ \E c \in Conns : CloseEvent(c) /\ UNCHANGED outsideServer
  \/ \E i \in 1..(MaxTasks + 1) : CloseStatusDone(i) /\ UNCHANGED outsideServer
  \/ \E u \in StoreUsers : register(u) /\ UNCHANGED outsideServer

\* the step received frame f and dropped it
Observed(f) == ignored' = f /\ UNCHANGED browserVars

NextFrames ==
  \/ \E c \in Conns : Connection(c) /\ Observed("")
  \/ \E c \in Conns, u \in SessionIds : RecvAuth(c, u) /\ Observed("")
  \/ \E i \in 1..(MaxTasks + 1) : AuthStatusDone(i) /\ Observed("")
  \/ \E i \in 1..(MaxTasks + 1) : AuthChannelsDone(i) /\ Observed("")
  \/ \E c \in Conns, ch \in 0..MaxChannel, p \in {0, 1} :
        RecvMessage(c, ch, p)
          /\ Observed(IF ~Truthy(userId[c]) THEN "message"
                      ELSE IF ch = 0 THEN "nochannel" ELSE "")
  \/ \E i \in 1..(MaxTasks + 1) : MessageUserDone(i) /\ Observed("")
  \/ \E i \in 1..(MaxTasks + 1) : MessageUserFail(i) /\ Observed("")
  \/ \E c \in Conns, ch \in 0..MaxChannel :
        RecvTyping(c, ch)
          /\ Observed(IF ~Truthy(userId[c]) THEN "typing"
                      ELSE IF ch = 0 THEN "nochannel" ELSE "")
  \/ \E i \in 1..(MaxTasks + 1) : BroadcastDone(i) /\ Observed("")
  \/ \E i \in 1..(MaxTasks + 1) : BroadcastFail(i) /\ Observed("")
  \/ \E c \in Conns, f \in MalformedFrames :
        RecvMalformed(c, f) /\ Observed(IF Throws(f) THEN "" ELSE f)
  \/ \E c \in Conns, f \in UnhandledFrames : RecvUnhandled(c, f) /\ Observed(f)
  \/ \E c \in Conns : CloseFrame(c) /\ Observed("")
  \/ \E c \in Conns : CloseEvent(c) /\ Observed("")
  \/ \E i \in 1..(MaxTasks + 1) : CloseStatusDone(i) /\ Observed("")

\* the frame dispatcher of the server: every kind of frame a connection can
\* send and the closes, over a store that keeps its rows; no heartbeat
SpecFrames == InitFrames /\ [][NextFrames]_vars

NextFaulty ==
  \/ \E c \in Conns : Connection(c) /\ UNCHANGED outsideServer
  \/ \E c \in Conns, u \in SessionIds : RecvAuth(c, u) /\ UNCHANGED outsideServer
  \/ \E i \in 1..(MaxTasks + 1) : AuthStatusDone(i) /\ UNCHANGED outsideServer
  \/ \E i \in 1..(MaxTasks + 1) : AuthStatusFail(i) /\ UNCHANGED outsideServer
  \/ \E i \in 1..(MaxTasks + 1) : AuthChannelsDone(i) /\ UNCHANGED outsideServer
  \/ \E i \in 1..(MaxTasks + 1) : AuthChannelsFail(i) /\ UNCHANGED outsideServer
  \/ \E c \in Conns : CloseFrame(c) /\ UNCHANGED outsideServer
  \/ \E c \in Conns : CloseEvent(c) /\ UNCHANGED outsideServer
  \/ \E i \in 1..(MaxTasks + 1) : CloseStatusDone(i) /\ UNCHANGED outsideServer
  \/ \E i \in 1..(MaxTasks + 1) : CloseStatusFail(i) /\ UNCHANGED outsideServer
  \/ \E u \in StoreUsers : register(u) /\ UNCHANGED outsideServer

\* the server handling auth frames and closes while the store may reject the
\* queries of the auth handler and the update of the close handler
SpecFaulty == InitEmpty /\ [][NextFaulty]_vars

\* the server handling auth frames (with or without a userId) and closes only,
\* while users register
SpecAuth == InitEmpty /\ [][NextAuth]_vars

NextKeys ==
  \/ \E c \in Conns : Connection(c) /\ UNCHANGED outsideServer
  \/ \E c \in Conns, u \in AuthIds : RecvAuth(c, u) /\ UNCHANGED outsideServer
  \/ \E i \in 1..(MaxTasks + 1) : AuthStatusDone(i) /\ UNCHANGED outsideServer
  \/ \E i \in 1..(MaxTasks + 1) : AuthChannelsDone(i) /\ UNCHANGED outsideServer
  \/ \E c \in Conns : CloseFrame(c) /\ UNCHANGED outsideServer
  \/ \E c \in Conns : CloseEvent(c) /\ UNCHANGED outsideServer
  \/ \E i \in 1..(MaxTasks + 1) : CloseStatusDone(i) /\ UNCHANGED outsideServer
  \/ \E i \in 1..(MaxTasks + 1) : CloseStatusFail(i) /\ UNCHANGED outsideServer

\* the server handling closes and auth frames whose userId is any value a
\* client can write into the frame, over a store in which every user has a row
SpecKeys == InitFresh /\ [][NextKeys]_vars

NextClient ==
  \/ \E u \in 0..MaxUser : Login(u) /\ UNCHANGED outsideConnect
  \/ Mount /\ UNCHANGED outsideConnect
  \/ \E u \in 0..MaxUser : Render(u) /\ UNCHANGED outsideConnect
  \/ EffectRerun /\ UNCHANGED outsideConnect
  \/ Unmount /\ UNCHANGED outsideConnect
  \/ \E w \in Sockets : onopen(w) /\ UNCHANGED outsideConnect
  \/ \E w \in Sockets, code \in {1000, 1001, 1005} :
        onclose(w, code) /\ UNCHANGED outsideConnect
  \/ \E w \in Sockets : onerror(w) /\ UNCHANGED outsideConnect
  \/ \E w \in Sockets : TimerFire(w) /\ UNCHANGED outsideConnect
  \/ Hide /\ UNCHANGED outsideConnect
  \/ handleVisibilityChange /\ UNCHANGED outsideConnect
  \/ \E r \in (0..MaxUser) \X (0..MaxGen) :
        sendMessage(r) /\ UNCHANGED <<serverVars, handlerVars, passVars, ignored>>
  \/ \E k \in MsgIds : RetryFire(k) /\ UNCHANGED <<serverVars, handlerVars, passVars, ignored>>

\* one instance of the useWebSocket hook in the browser
SpecClient == InitFresh /\ [][NextClient]_vars

NextHandlers ==
  \/ \E u \in Users : Login(u) /\ UNCHANGED outsideConnect
  \/ Mount /\ UNCHANGED outsideConnect
  \/ \E w \in Sockets : onopen(w) /\ UNCHANGED outsideConnect
  \/ \E sc \in Scopes, id \in HandlerIds(registered) :
        addMessageHandler(sc, id) /\ UNCHANGED outsideHandlers
  \/ \E n \in 1..MaxHandlers :
        cleanup(n) /\ UNCHANGED outsideHandlers
  \/ \E n \in 1..MaxHandlers :
        cleanupAgain(n) /\ UNCHANGED outsideHandlers
  \/ \E w \in Sockets, t \in InboundTypes, ch \in ScopeIds, p \in 0..MaxScope :
        onmessage(w, Envelope(t, 1, ch, p, ""))
          /\ UNCHANGED outsideHandlers

\* the handler registry of the hook and the dispatch of inbound envelopes
SpecHandlers == InitFresh /\ [][NextHandlers]_vars

NextDispatch ==
  \/ \E u \in Users : Login(u) /\ UNCHANGED outsideConnect
  \/ Mount /\ UNCHANGED outsideConnect
  \/ \E w \in Sockets : onopen(w) /\ ~PassActive /\ UNCHANGED outsideConnect
  \/ \E sc \in Scopes, id \in HandlerIds(registered) :
        addMessageHandler(sc, id) /\ Reentered /\ UNCHANGED outsideDispatch
  \/ \E n \in 1..MaxHandlers :
        cleanup(n) /\ Reentered /\ UNCHANGED outsideDispatch
  \/ \E n \in 1..MaxHandlers :
        cleanupAgain(n) /\ Reentered /\ UNCHANGED outsideDispatch
  \/ \E w \in Sockets, t \in InboundTypes \ {"auth_success"} :
        PassStart(w, t) /\ UNCHANGED <<outsideDispatch, handlerVars>>
  \/ PassStep /\ UNCHANGED <<outsideDispatch, handlerVars>>

\* one dispatch pass of ws.onmessage, element by element, with handlers that
\* register and remove handlers while it runs
SpecDispatch == InitFresh /\ [][NextDispatch]_vars

====
